---- MODULE Spec2Model ----
(***************************************************************************)
(* A model of the dj-ai backend: the playlist reconciliation pipeline of   *)
(* POST /spotify/generate-from-playlist (src/src/routes/spotify.ts), the   *)
(* entry point POST /generate (src/src/routes/generate.ts) and the pure    *)
(* functions parseAIPlaylist and findMatchingTrack.                        *)
(*                                                                         *)
(* A JavaScript string is modelled as a sequence of one-character strings, *)
(* so that split, trim, toLowerCase, includes and the song-line regular    *)
(* expression are computed character by character.                         *)
(***************************************************************************)
EXTENDS Integers, Sequences, FiniteSets, TLC

NULL == "null"

(***************************************************************************)
(* Bounds of the model.                                                    *)
(***************************************************************************)
\* longest line of generated text drawn character by character
MaxLineLen == 5

(***************************************************************************)
(* Characters and the String methods the code uses.                        *)
(***************************************************************************)
NL == "\n"

\* white space of a JavaScript regular expression, also what trim strips
IsSpace(c) == c \in {" ", "\t", "\n", "\r"}

\* a digit of a regular expression
IsDigit(c) == c \in {"0", "1", "2", "3", "4", "5", "6", "7", "8", "9"}

\* the dot of a regular expression: any character but a line terminator
IsDot(c) == c \notin {"\n", "\r"}

AllSpace(s, i, j) == \A k \in i..j : IsSpace(s[k])

AllDigit(s, i, j) == \A k \in i..j : IsDigit(s[k])

AllDot(s, i, j) == \A k \in i..j : IsDot(s[k])

\* String.prototype.trim
Trim(s) ==
  LET n == Len(s)
      keep == {k \in 1..n : ~IsSpace(s[k])}
  IN  IF keep = {} THEN <<>>
      ELSE LET lo == CHOOSE k \in keep : \A m \in keep : k <= m
               hi == CHOOSE k \in keep : \A m \in keep : k >= m
           IN  SubSeq(s, lo, hi)

LowerChar(c) ==
  CASE c = "A" -> "a"
    [] c = "B" -> "b"
    [] c = "C" -> "c"
    [] OTHER -> c

\* String.prototype.toLowerCase
ToLowerCase(s) == [k \in 1..Len(s) |-> LowerChar(s[k])]

\* String.prototype.includes: sub occurs in s (the empty string always does)
Includes(s, sub) ==
  \E i \in 0..(Len(s) - Len(sub)) : SubSeq(s, i + 1, i + Len(sub)) = sub

\* the positions of s that hold the separator character sep
SepPositions(s, sep) == {k \in 1..Len(s) : s[k] = sep}

\* String.prototype.split with a one-character separator: the pieces between
\* consecutive separators, empty pieces included
RECURSIVE Split(_, _)
Split(s, sep) ==
  LET ps == SepPositions(s, sep)
  IN  IF ps = {} THEN <<s>>
      ELSE LET p == CHOOSE k \in ps : \A m \in ps : k <= m
           IN  <<SubSeq(s, 1, p - 1)>> \o Split(SubSeq(s, p + 1, Len(s)), sep)

\* Array.prototype.join
RECURSIVE Join(_, _)
Join(parts, sep) ==
  IF Len(parts) = 0 THEN <<>>
  ELSE IF Len(parts) = 1 THEN parts[1]
  ELSE parts[1] \o sep \o Join(Tail(parts), sep)

\* songRegex of parseAIPlaylist, matched by backtracking. Its parts, in order:
\*   ^  white space (greedy)  [ digits, one of . or ), white space ] (optional)
\*   group 2: one or more characters (lazy)   white space  "-"  white space
\*   group 3: one or more characters (lazy)   white space  $
\* A greedy quantifier tries its longest match first, a lazy one its shortest,
\* and the first alternative that lets the rest of the pattern match is taken.

\* group 3 after the hyphen at position k: the pairs <<ts, te>> of its first and
\* last character that let the pattern reach the end of the line
TitleSpans(s, k) ==
  UNION { {<<ts, te>> : te \in {e \in ts..Len(s) : AllDot(s, ts, e) /\ AllSpace(s, e + 1, Len(s))}} :
          ts \in {t \in (k + 1)..Len(s) : AllSpace(s, k + 1, t - 1)} }

\* the white space after the hyphen is greedy (latest start first), group 3 is
\* lazy (earliest end first)
TitleSpan(s, k) ==
  LET sp == TitleSpans(s, k)
  IN  CHOOSE x \in sp :
        \A y \in sp : \/ x[1] > y[1]
                      \/ (x[1] = y[1] /\ x[2] <= y[2])

\* the positions k of a hyphen that can follow group 2 ending at ae: white
\* space, then the hyphen, with the rest of the pattern matching after it
HyphenAfter(s, ae) ==
  {k \in (ae + 1)..Len(s) :
      /\ s[k] = "-"
      /\ AllSpace(s, ae + 1, k - 1)
      /\ TitleSpans(s, k) # {}}

\* the ends ae of group 2 when it starts at as
ArtistEnds(s, as) ==
  {ae \in as..Len(s) : AllDot(s, as, ae) /\ HyphenAfter(s, ae) # {}}

\* a pattern without the optional ordinal: group 1 never matches
OrdinalMatchesNever(s, i) == {}

\* the ways the optional ordinal (group 1) can match at position i:
\* <<d, w>> = d digits, one of . or ), w white-space characters
OrdinalMatches(s, i) ==
  UNION { {<<d, w>> : w \in {v \in 0..(Len(s) - i - d) : AllSpace(s, i + d + 1, i + d + v)}} :
          d \in {c \in 1..(Len(s) - i) : AllDigit(s, i, i + c - 1) /\ s[i + c] \in {".", ")"}} }

\* where group 2 starts after w0 leading white-space characters and group 1
\* matched as <<d, w>> (d = 0: group 1 skipped)
StartOf(w0, d, w) == w0 + (IF d = 0 THEN 0 ELSE d + 1 + w) + 1

\* every way to reach group 2: <<w0, d, w>> such that the rest of the pattern
\* matches from there
Starts(s) ==
  UNION { {<<w0, o[1], o[2]>> :
             o \in {q \in OrdinalMatches(s, w0 + 1) \cup {<<0, 0>>} :
                      ArtistEnds(s, StartOf(w0, q[1], q[2])) # {}}} :
          w0 \in {v \in 0..Len(s) : AllSpace(s, 1, v)} }

\* the backtracking order: longest leading white space first, group 1 taken
\* before skipped, most digits first, longest white space first
StartBefore(x, y) ==
  \/ x[1] > y[1]
  \/ x[1] = y[1] /\ x[2] > y[2]
  \/ x[1] = y[1] /\ x[2] = y[2] /\ x[3] >= y[3]

\* a match in which group 2 is greedy: it ends as late as the pattern allows
MatchSongRegexGreedyArtist(s) ==
  LET starts == Starts(s)
  IN  IF starts = {} THEN <<>>
      ELSE LET st == CHOOSE x \in starts : \A y \in starts : StartBefore(x, y)
               as == StartOf(st[1], st[2], st[3])
               ends == ArtistEnds(s, as)
               ae == CHOOSE e \in ends : \A f \in ends : e >= f
               hyphens == HyphenAfter(s, ae)
               hy == CHOOSE k \in hyphens : \A m \in hyphens : k >= m
               ti == TitleSpan(s, hy)
           IN  <<SubSeq(s, as, ae), SubSeq(s, ti[1], ti[2])>>

\* line.match(songRegex): the empty sequence when the line does not match (null),
\* else the captured groups << match[2], match[3] >>
MatchSongRegex(s) ==
  LET starts == Starts(s)
  IN  IF starts = {} THEN <<>>
      ELSE LET st == CHOOSE x \in starts : \A y \in starts : StartBefore(x, y)
               as == StartOf(st[1], st[2], st[3])
               ends == ArtistEnds(s, as)
               ae == CHOOSE e \in ends : \A f \in ends : e <= f
               hyphens == HyphenAfter(s, ae)
               hy == CHOOSE k \in hyphens : \A m \in hyphens : k >= m
               ti == TitleSpan(s, hy)
           IN  <<SubSeq(s, as, ae), SubSeq(s, ti[1], ti[2])>>

Hyphen == <<" ", "-", " ">>

\* one iteration of the loop of parseAIPlaylist: the songs a line contributes
SongsOfLine(line) ==
  LET match == MatchSongRegex(line)
  IN  IF Len(match) = 0 THEN <<>>
      ELSE LET artist == Trim(match[1])
               title == Trim(match[2])
           IN  <<artist \o Hyphen \o title>>

\* a loop that puts each song in front of the songs found so far
RECURSIVE SongsOfLinesReversed(_)
SongsOfLinesReversed(lines) ==
  IF Len(lines) = 0 THEN <<>>
  ELSE SongsOfLinesReversed(Tail(lines)) \o SongsOfLine(Head(lines))

RECURSIVE SongsOfLines(_)
SongsOfLines(lines) ==
  IF Len(lines) = 0 THEN <<>>
  ELSE SongsOfLine(Head(lines)) \o SongsOfLines(Tail(lines))

\* parseAIPlaylist(playlistText)
parseAIPlaylist(playlistText) == SongsOfLines(Split(playlistText, NL))

(***************************************************************************)
(* findMatchingTrack. A track is a record [name, artists, uri]; the result *)
(* is the position in libraryTracks of the track returned, 0 for null.     *)
(***************************************************************************)
\* trackArtists.some(a => a === artist || artist.includes(a))
SomeArtistExact(trackArtists, artist) ==
  \E k \in 1..Len(trackArtists) :
     trackArtists[k] = artist \/ Includes(artist, trackArtists[k])

\* the condition of the first loop
ExactTier(track, artist, title) ==
  LET trackArtists == [k \in 1..Len(track.artists) |-> ToLowerCase(track.artists[k])]
      trackTitle == ToLowerCase(track.name)
  IN  trackTitle = title /\ SomeArtistExact(trackArtists, artist)

\* the condition of the second loop, its inner loop over trackArtists included
LenientTier(track, artist, title) ==
  LET trackArtists == [k \in 1..Len(track.artists) |-> ToLowerCase(track.artists[k])]
      trackTitle == ToLowerCase(track.name)
  IN  /\ Includes(trackTitle, title) \/ Includes(title, trackTitle)
      /\ \E k \in 1..Len(trackArtists) :
            Includes(trackArtists[k], artist) \/ Includes(artist, trackArtists[k])

\* for (const track of libraryTracks) { if (exact) return track }, from track i on
RECURSIVE ExactLoop(_, _, _, _)
ExactLoop(libraryTracks, i, artist, title) ==
  IF i > Len(libraryTracks) THEN 0
  ELSE IF ExactTier(libraryTracks[i], artist, title) THEN i
  ELSE ExactLoop(libraryTracks, i + 1, artist, title)

\* for (const track of libraryTracks) { if (lenient) return track }, from track i on
RECURSIVE LenientLoop(_, _, _, _)
LenientLoop(libraryTracks, i, artist, title) ==
  IF i > Len(libraryTracks) THEN 0
  ELSE IF LenientTier(libraryTracks[i], artist, title) THEN i
  ELSE LenientLoop(libraryTracks, i + 1, artist, title)

\* a single scan that accepts a track on either tier
RECURSIVE MergedLoop(_, _, _, _)
MergedLoop(libraryTracks, i, artist, title) ==
  IF i > Len(libraryTracks) THEN 0
  ELSE IF \/ ExactTier(libraryTracks[i], artist, title)
          \/ LenientTier(libraryTracks[i], artist, title) THEN i
  ELSE MergedLoop(libraryTracks, i + 1, artist, title)

\* the scans done in one pass
matchTiersMerged(libraryTracks, artist, title) ==
  MergedLoop(libraryTracks, 1, artist, title)

\* the two scans of findMatchingTrack, the second only when the first found nothing
matchTiers(libraryTracks, artist, title) ==
  LET exact == ExactLoop(libraryTracks, 1, artist, title)
  IN  IF exact # 0 THEN exact ELSE LenientLoop(libraryTracks, 1, artist, title)

\* a matcher that takes the first two parts of the split, however many there are
findMatchingTrackFirstTwo(songString, libraryTracks) ==
  LET parts == Split(songString, "-")
  IN  IF Len(parts) < 2 THEN 0
      ELSE matchTiers(libraryTracks,
                      ToLowerCase(Trim(parts[1])), ToLowerCase(Trim(parts[2])))

findMatchingTrack(songString, libraryTracks) ==
  LET parts == Split(songString, "-")
  IN  IF Len(parts) # 2 THEN 0
      ELSE matchTiers(libraryTracks,
                      ToLowerCase(Trim(parts[1])), ToLowerCase(Trim(parts[2])))

(***************************************************************************)
(* The data of the model: tracks, corpora, generated text.                 *)
(***************************************************************************)
\* most lines of one generated text in the handler model
MaxLines == 2

TrackPlain == [name |-> <<"A", "b">>, artists |-> << <<"C">> >>, uri |-> "uri1"]

TrackHyphen == [name |-> <<"a", "-", "b">>, artists |-> << <<"c">> >>, uri |-> "uri2"]

TrackDuo == [name |-> <<"b">>, artists |-> << <<"c">>, <<"B", "a">> >>, uri |-> "uri3"]

\* the track lists the catalog can hold for a playlist
Corpora ==
  { <<>>, <<TrackPlain>>, <<TrackPlain, TrackDuo>>, <<TrackDuo, TrackHyphen>> }

CommaSpace == <<",", " ">>

\* `${track.artists.join(", ")} - ${track.name}`
RenderTrack(track) == Join(track.artists, CommaSpace) \o Hyphen \o track.name

\* songList = sourceTracks.map(...)
songList(sourceTracks) == [k \in 1..Len(sourceTracks) |-> RenderTrack(sourceTracks[k])]

\* the three section headers of the required output format of the prompt
WarmupHeader == <<"[", "W", "a", "r", "m", "u", "p", " ", "s", "o", "n", "g", "s", " ", "-", " ", "l", "i", "s", "t", " ", "8", "-", "1", "0", " ", "s", "o", "n", "g", "s", "]">>

PeakHeader == <<"[", "P", "e", "a", "k", " ", "t", "i", "m", "e", " ", "s", "o", "n", "g", "s", " ", "-", " ", "l", "i", "s", "t", " ", "1", "5", "-", "2", "0", " ", "s", "o", "n", "g", "s", "]">>

CooldownHeader == <<"[", "C", "o", "o", "l", "d", "o", "w", "n", " ", "s", "o", "n", "g", "s", " ", "-", " ", "l", "i", "s", "t", " ", "8", "-", "1", "0", " ", "s", "o", "n", "g", "s", "]">>

PromptHeaders == {WarmupHeader, PeakHeader, CooldownHeader}

\* a section header of the same shape, shortened
ShortHeader == <<"[", "a", " ", "-", " ", "8", "-", "1", "]">>

Ordinal == <<"1", ".", " ">>

\* a song that is in no corpus
UnknownSong == <<"a", "a", " ", "-", " ", "c", "c">>

\* the lines a generated text is made of: the lines of the prompt's song list,
\* the first of them with a leading ordinal, a section header and a song of no
\* corpus
LinePool(sourceTracks) ==
  {songList(sourceTracks)[k] : k \in 1..Len(sourceTracks)}
    \cup {Ordinal \o songList(sourceTracks)[k] : k \in 1..Len(sourceTracks) \cap {1}}
    \cup {ShortHeader, UnknownSong}

RECURSIVE SeqsUpTo(_, _)
SeqsUpTo(S, n) ==
  IF n = 0 THEN {<<>>}
  ELSE LET shorter == SeqsUpTo(S, n - 1)
       IN  shorter \cup {Append(q, x) : q \in {r \in shorter : Len(r) = n - 1}, x \in S}

\* the texts the generation backend may answer with: the empty text and the
\* texts of one to MaxLines lines
GeneratedTexts(sourceTracks) ==
  {<<>>} \cup
  {Join(lines, <<NL>>) : lines \in SeqsUpTo(LinePool(sourceTracks), MaxLines) \ {<<>>}}

\* the texts the generation backend may answer a prompt without song list with
RegularTexts == {<<>>, UnknownSong}

\* the lines that repeat a line of the prompt's song list, with or without ordinal
EchoLines(sourceTracks) ==
  {songList(sourceTracks)[k] : k \in 1..Len(sourceTracks)}
    \cup {Ordinal \o songList(sourceTracks)[k] : k \in 1..Len(sourceTracks)}

(***************************************************************************)
(* The state of the process and of the services it talks to.               *)
(***************************************************************************)
VARIABLES
  userToken,          \* SpotifyService.userTokens.get("default"): "none", "valid" or "expired"
  libraryPlaylistId,  \* the module variable of routes/spotify.ts
  env,                \* process.env: LLM_PROVIDER and the API keys
  catalog,            \* the playlists of the user at Spotify
  p,                  \* the run of POST /spotify/generate-from-playlist
  g,                  \* the run of POST /generate
  fn                  \* input and result of a pure function applied on its own

vars == <<userToken, libraryPlaylistId, env, catalog, p, g, fn>>

LibraryName == "DJ AI Song Library"

MsgMissing == "Missing required fields: venue, date, and style are required"
MsgNotAuth == "User is not authenticated"
MsgRefresh == "Failed to refresh access token"
MsgUserPlaylists == "Failed to fetch user playlists from Spotify API"
MsgPlaylistTracks == "Failed to fetch playlist tracks from Spotify API"
MsgCreate == "Failed to create playlist"
MsgAddTracks == "Failed to add tracks to playlist"
MsgNoLibrary == "Library playlist not found. Please create it first using /create-library-playlist endpoint or provide a specific playlist ID."
MsgNoLibraryId == "Library playlist ID not found"
MsgGeminiKey == "GEMINI_API_KEY environment variable is not set"
MsgDeepseekKey == "DEEPSEEK_API_KEY environment variable is not set"
MsgUnsupported == "Unsupported LLM provider: "
LoginPath == "/spotify/login"

\* !x of JavaScript for the values a request field takes here
Falsy(x) == x \in {NULL, ""}

(***************************************************************************)
(* SpotifyService                                                          *)
(***************************************************************************)
\* getUserAccessToken: what it can answer in a token state. ok: a token is
\* returned; msg: the error thrown; tok: the token state it leaves
getUserAccessToken(tok) ==
  IF tok = "none" THEN {[ok |-> FALSE, msg |-> MsgNotAuth, tok |-> "none"]}
  ELSE IF tok = "expired"
    THEN {[ok |-> TRUE, msg |-> "", tok |-> "valid"],
          [ok |-> FALSE, msg |-> MsgRefresh, tok |-> "expired"]}
  ELSE {[ok |-> TRUE, msg |-> "", tok |-> "valid"]}

\* the playlists of the user as getUserPlaylists lists them: id and name
UserPlaylistList(cat) ==
  << [id |-> "p1", name |-> "My Salsa"],
     [id |-> "p2", name |-> "DJ AI Song Library (copy)"] >>
   \o (IF cat.hasLibrary THEN << [id |-> "lib", name |-> LibraryName] >> ELSE <<>>)

\* the tracks the catalog holds under a playlist id, as a one-element
\* sequence; the empty sequence when there is no such playlist
CatalogTracks(cat, id) ==
  IF id \in {"p1", "p2"} THEN <<cat.tracks>>
  ELSE IF id = "lib" /\ cat.hasLibrary THEN <<cat.tracks>>
  ELSE <<>>

(***************************************************************************)
(* ProviderFactory.getProvider and the constructors of the providers       *)
(***************************************************************************)
LowerName(n) ==
  CASE n = "Gemini" -> "gemini"
    [] n = "DEEPSEEK" -> "deepseek"
    [] OTHER -> n

\* process.env.LLM_PROVIDER?.toLowerCase() || "gemini"
ProviderName(e) ==
  IF Falsy(e.LLM_PROVIDER) THEN "gemini" ELSE LowerName(e.LLM_PROVIDER)

\* a factory whose providers look for their key only when generate is called
getProviderLazy(e) ==
  LET providerName == ProviderName(e)
  IN  CASE providerName = "gemini" -> [ok |-> TRUE, name |-> "gemini", msg |-> ""]
        [] providerName = "deepseek" -> [ok |-> TRUE, name |-> "deepseek", msg |-> ""]
        [] OTHER -> [ok |-> FALSE, name |-> providerName, msg |-> MsgUnsupported]

\* ok: a provider was constructed; else msg is the error thrown
getProvider(e) ==
  LET providerName == ProviderName(e)
  IN  CASE providerName = "gemini" ->
             IF e.GEMINI_API_KEY THEN [ok |-> TRUE, name |-> "gemini", msg |-> ""]
             ELSE [ok |-> FALSE, name |-> "gemini", msg |-> MsgGeminiKey]
        [] providerName = "deepseek" ->
             IF e.DEEPSEEK_API_KEY THEN [ok |-> TRUE, name |-> "deepseek", msg |-> ""]
             ELSE [ok |-> FALSE, name |-> "deepseek", msg |-> MsgDeepseekKey]
        [] OTHER -> [ok |-> FALSE, name |-> providerName, msg |-> MsgUnsupported]

\* the message of the error generate throws when the backend call fails
GenerateError(name) ==
  IF name = "gemini" THEN "Gemini API error: backend failure"
  ELSE "Deepseek API error: backend failure"

\* the message of the error DeepseekProvider.generate throws when the answer of
\* the backend holds no message content
MsgDeepseekFormat == "Deepseek API error: Unexpected response format from Deepseek API"

\* no call of the backend was made yet
NoReply == [ok |-> FALSE, text |-> <<>>]

\* what the backend can answer to one call: a failure (the call throws), or an
\* answer that holds one of the texts
BackendReplies(texts) ==
  {[ok |-> FALSE, text |-> <<>>]} \cup {[ok |-> TRUE, text |-> t] : t \in texts}

\* a provider that calls the backend a second time when the first call failed
generateRetrying(name, reply) ==
  IF ~reply.ok
    THEN [ok |-> FALSE, text |-> <<>>, msg |-> GenerateError(name), calls |-> 2]
  ELSE IF name = "deepseek" /\ Len(reply.text) = 0
    THEN [ok |-> FALSE, text |-> <<>>, msg |-> MsgDeepseekFormat, calls |-> 1]
  ELSE [ok |-> TRUE, text |-> reply.text, msg |-> "", calls |-> 1]

\* provider.generate(prompt), reply being the answer of the backend to the call
\* it makes. ok: text is the text returned; else msg is the message of the
\* error thrown. calls is the number of calls of the backend made.
generate(name, reply) ==
  IF ~reply.ok
    THEN [ok |-> FALSE, text |-> <<>>, msg |-> GenerateError(name), calls |-> 1]
  ELSE IF name = "deepseek" /\ Len(reply.text) = 0
    THEN [ok |-> FALSE, text |-> <<>>, msg |-> MsgDeepseekFormat, calls |-> 1]
  ELSE [ok |-> TRUE, text |-> reply.text, msg |-> "", calls |-> 1]

Envs ==
  { [LLM_PROVIDER |-> NULL, GEMINI_API_KEY |-> TRUE, DEEPSEEK_API_KEY |-> FALSE],
    [LLM_PROVIDER |-> "DEEPSEEK", GEMINI_API_KEY |-> FALSE, DEEPSEEK_API_KEY |-> TRUE],
    [LLM_PROVIDER |-> "openai", GEMINI_API_KEY |-> TRUE, DEEPSEEK_API_KEY |-> TRUE],
    [LLM_PROVIDER |-> "Gemini", GEMINI_API_KEY |-> FALSE, DEEPSEEK_API_KEY |-> TRUE],
    [LLM_PROVIDER |-> "deepseek", GEMINI_API_KEY |-> TRUE, DEEPSEEK_API_KEY |-> FALSE] }


(***************************************************************************)
(* POST /spotify/generate-from-playlist                                    *)
(***************************************************************************)
Venues == {NULL, "", "La Tropical"}
Dates == {NULL, "", "2023-07-15"}
Styles == {NULL, "", "Timba heavy"}

PlaylistUrl == "https://open.spotify.com/playlist/p1?si=1"

\* the playlistId of a request: absent, an id, the id of no playlist, a URL
PlaylistIds == {NULL, "p1", "zz", PlaylistUrl}

PBodies == [venue : Venues, date : Dates, style : Styles, playlistId : PlaylistIds]

\* if (playlistId.includes('spotify.com/playlist/')) the id is what follows
\* "playlist/" in the URL, else the playlistId itself
SourceIdOf(playlistId) ==
  IF playlistId = PlaylistUrl THEN "p1" ELSE playlistId

\* a validation that forgets style
missingFieldsNoStyle(b) == Falsy(b.venue) \/ Falsy(b.date)

\* !venue || !date || !style
missingFields(b) == Falsy(b.venue) \/ Falsy(b.date) \/ Falsy(b.style)

NoBody == [venue |-> NULL, date |-> NULL, style |-> NULL, playlistId |-> NULL]

NoData == [totalSongs |-> 0, foundSongs |-> 0, notFoundSongs |-> 0]

PIdle ==
  [pc |-> "idle", origin |-> "none", body |-> NoBody,
   sourcePlaylistId |-> NULL, isUsingLibrary |-> FALSE, sourceTracks |-> <<>>,
   songList |-> <<>>,
   provider |-> NULL, calls |-> 0, reply |-> NoReply,
   aiPlaylist |-> <<>>, playlistSongs |-> <<>>,
   newPlaylistId |-> NULL, trackUris |-> <<>>, notFound |-> <<>>, added |-> <<>>,
   status |-> 0, error |-> "", location |-> "", data |-> NoData,
   log |-> <<>>, noToken |-> FALSE, failure |-> "none", nameResolvable |-> "unknown"]

\* res.status(code).json({ success: false, error })
PFail(r, code, msg) ==
  [r EXCEPT !.pc = "done", !.status = code, !.error = msg]

\* res.redirect('/spotify/login')
PRedirect(r) ==
  [r EXCEPT !.pc = "done", !.status = 302, !.location = LoginPath]

\* the catch block of the handler
PCatch(r, msg) ==
  IF msg = MsgNotAuth THEN PRedirect(r) ELSE PFail(r, 500, msg)

\* a loop that leaves out of notFound the songs that are not "artist - title"
RECURSIVE MatchSongsSkipping(_, _, _)
MatchSongsSkipping(playlistSongs, i, sourceTracks) ==
  IF i > Len(playlistSongs) THEN [trackUris |-> <<>>, notFound |-> <<>>]
  ELSE LET matchingTrack == findMatchingTrack(playlistSongs[i], sourceTracks)
           rest == MatchSongsSkipping(playlistSongs, i + 1, sourceTracks)
       IN  IF matchingTrack # 0
             THEN [rest EXCEPT !.trackUris = <<sourceTracks[matchingTrack].uri>> \o @]
           ELSE IF Len(Split(playlistSongs[i], "-")) # 2 THEN rest
           ELSE [rest EXCEPT !.notFound = <<playlistSongs[i]>> \o @]

\* a loop that puts each outcome in front of the outcomes collected so far
RECURSIVE MatchSongsReversed(_, _, _)
MatchSongsReversed(playlistSongs, i, sourceTracks) ==
  IF i > Len(playlistSongs) THEN [trackUris |-> <<>>, notFound |-> <<>>]
  ELSE LET matchingTrack == findMatchingTrack(playlistSongs[i], sourceTracks)
           rest == MatchSongsReversed(playlistSongs, i + 1, sourceTracks)
       IN  IF matchingTrack # 0
             THEN [rest EXCEPT !.trackUris = @ \o <<sourceTracks[matchingTrack].uri>>]
             ELSE [rest EXCEPT !.notFound = @ \o <<playlistSongs[i]>>]

\* a loop that gives a song missing from the corpus the URI of a search result
RECURSIVE MatchSongsSearching(_, _, _)
MatchSongsSearching(playlistSongs, i, sourceTracks) ==
  IF i > Len(playlistSongs) THEN [trackUris |-> <<>>, notFound |-> <<>>]
  ELSE LET matchingTrack == findMatchingTrack(playlistSongs[i], sourceTracks)
           rest == MatchSongsSearching(playlistSongs, i + 1, sourceTracks)
       IN  IF matchingTrack # 0
             THEN [rest EXCEPT !.trackUris = <<sourceTracks[matchingTrack].uri>> \o @]
             ELSE [rest EXCEPT !.trackUris = <<"uri0">> \o @]

\* the loop over playlistSongs, from song i on: trackUris and notFound
RECURSIVE MatchSongs(_, _, _)
MatchSongs(playlistSongs, i, sourceTracks) ==
  IF i > Len(playlistSongs) THEN [trackUris |-> <<>>, notFound |-> <<>>]
  ELSE LET matchingTrack == findMatchingTrack(playlistSongs[i], sourceTracks)
           rest == MatchSongs(playlistSongs, i + 1, sourceTracks)
       IN  IF matchingTrack # 0
             THEN [rest EXCEPT !.trackUris = <<sourceTracks[matchingTrack].uri>> \o @]
             ELSE [rest EXCEPT !.notFound = <<playlistSongs[i]>> \o @]

\* the handler from its entry to its first await
PStart(b, origin) ==
  LET r == [PIdle EXCEPT !.origin = origin, !.body = b]
  IN  IF missingFields(b) THEN PFail(r, 400, MsgMissing)
      ELSE [r EXCEPT !.pc = "auth", !.log = <<"getUserAccessToken">>]

\* a client posts to /spotify/generate-from-playlist
PReceive ==
  /\ p.pc = "idle" /\ g.pc = "idle"
  /\ \E b \in PBodies : p' = PStart(b, "client")
  /\ UNCHANGED <<userToken, libraryPlaylistId, env, catalog, g, fn>>

\* call getPlaylistTracks(sourcePlaylistId)
PCallFetch(r, id) ==
  [r EXCEPT !.sourcePlaylistId = id, !.pc = "fetch",
            !.log = Append(@, "getPlaylistTracks")]

\* from the source being chosen to the next await. nameResolvable notes whether
\* the catalog held a playlist of the library's name when the stored id was used
PChooseSource(r, lib) ==
  IF Falsy(r.body.playlistId)
    THEN LET u == [r EXCEPT !.isUsingLibrary = TRUE]
         IN  IF Falsy(lib)
               THEN [u EXCEPT !.pc = "lookup", !.log = Append(@, "getUserPlaylists")]
               ELSE PCallFetch([u EXCEPT !.nameResolvable =
                                           IF catalog.hasLibrary THEN "yes" ELSE "no"], lib)
    ELSE PCallFetch(r, SourceIdOf(r.body.playlistId))

\* the handler without that first check
PAfterAuthUnchecked(r, o, lib) == PChooseSource(r, lib)

\* the try/catch around the first getUserAccessToken, o being its outcome
PAfterAuth(r, o, lib) ==
  IF o.ok THEN PChooseSource(r, lib)
  ELSE PRedirect([r EXCEPT !.failure = IF o.msg = MsgRefresh THEN "refresh" ELSE "none"])

\* await spotifyService.getUserAccessToken() returns or throws
PAuthCheck ==
  /\ p.pc = "auth"
  /\ \E o \in getUserAccessToken(userToken) :
       /\ userToken' = o.tok
       /\ p' = PAfterAuth([p EXCEPT !.noToken = (o.msg = MsgNotAuth)], o, libraryPlaylistId)
  /\ UNCHANGED <<libraryPlaylistId, env, catalog, g, fn>>

\* userPlaylists.find(playlist => playlist.name === "DJ AI Song Library"):
\* the position of the first such playlist, 0 when there is none
RECURSIVE FindByName(_, _, _)
FindByName(list, i, name) ==
  IF i > Len(list) THEN 0
  ELSE IF list[i].name = name THEN i
  ELSE FindByName(list, i + 1, name)

\* await spotifyService.getUserPlaylists() returns or throws
PLookupReturn ==
  /\ p.pc = "lookup"
  /\ \E o \in getUserAccessToken(userToken), net \in BOOLEAN :
       /\ userToken' = o.tok
       /\ IF ~o.ok \/ ~net
            THEN /\ p' = PCatch([p EXCEPT !.failure = "getUserPlaylists",
                                          !.noToken = (o.msg = MsgNotAuth)],
                                MsgUserPlaylists)
                 /\ UNCHANGED libraryPlaylistId
            ELSE LET userPlaylists == UserPlaylistList(catalog)
                     libraryPlaylist == FindByName(userPlaylists, 1, LibraryName)
                     r == [p EXCEPT !.nameResolvable =
                                      IF catalog.hasLibrary THEN "yes" ELSE "no"]
                 IN  IF libraryPlaylist # 0
                       THEN /\ libraryPlaylistId' = userPlaylists[libraryPlaylist].id
                            /\ p' = IF Falsy(libraryPlaylistId')
                                      THEN PFail(r, 404, MsgNoLibraryId)
                                      ELSE PCallFetch(r, libraryPlaylistId')
                       ELSE /\ p' = PFail(r, 404, MsgNoLibrary)
                            /\ UNCHANGED libraryPlaylistId
  /\ UNCHANGED <<env, catalog, g, fn>>

\* await spotifyService.getPlaylistTracks(sourcePlaylistId) returns or throws;
\* then the prompt is built, the provider constructed and generate called
PFetchReturn ==
  /\ p.pc = "fetch"
  /\ \E net \in BOOLEAN :
       LET found == CatalogTracks(catalog, p.sourcePlaylistId)
       IN  IF ~net \/ Len(found) = 0
             THEN p' = PCatch([p EXCEPT !.failure = "getPlaylistTracks"], MsgPlaylistTracks)
             ELSE LET provider == getProvider(env)
                      r == [p EXCEPT !.sourceTracks = found[1], !.songList = songList(found[1])]
                  IN  IF provider.ok
                        THEN p' = [r EXCEPT !.pc = "generate", !.provider = provider.name,
                                            !.log = Append(@, "generate")]
                        ELSE p' = PCatch([r EXCEPT !.failure = "getProvider"], provider.msg)
  /\ UNCHANGED <<userToken, libraryPlaylistId, env, catalog, g, fn>>

\* await provider.generate(prompt) returns or throws; then the text is parsed
\* and createPlaylist called
PGenerateReturn ==
  /\ p.pc = "generate"
  /\ \E reply \in BackendReplies(GeneratedTexts(p.sourceTracks)) :
       LET aiPlaylist == generate(p.provider, reply)
           r == [p EXCEPT !.calls = @ + aiPlaylist.calls, !.reply = reply]
       IN  IF aiPlaylist.ok
             THEN p' = [r EXCEPT !.aiPlaylist = aiPlaylist.text,
                                 !.playlistSongs = parseAIPlaylist(aiPlaylist.text),
                                 !.pc = "create",
                                 !.log = @ \o <<"generate.return", "parseAIPlaylist",
                                                "createPlaylist">>]
             ELSE p' = PCatch([r EXCEPT !.failure = "generate"], aiPlaylist.msg)
  /\ UNCHANGED <<userToken, libraryPlaylistId, env, catalog, g, fn>>

\* a handler that answers 500 when no track was found
PSucceedNeedsTracks(r) ==
  IF Len(r.trackUris) = 0
    THEN [r EXCEPT !.pc = "done", !.status = 500, !.error = "No tracks found"]
    ELSE [r EXCEPT !.pc = "done", !.status = 200,
                   !.data = [totalSongs |-> Len(r.playlistSongs),
                             foundSongs |-> Len(r.trackUris),
                             notFoundSongs |-> Len(r.notFound)]]

\* res.status(200).json({ success: true, data })
PSucceed(r) ==
  [r EXCEPT !.pc = "done", !.status = 200,
            !.data = [totalSongs |-> Len(r.playlistSongs),
                      foundSongs |-> Len(r.trackUris),
                      notFoundSongs |-> Len(r.notFound)]]

\* a handler that calls addTracksToPlaylist whatever was found
PMatchAndAddAlways(r, id) ==
  LET m == MatchSongs(r.playlistSongs, 1, r.sourceTracks)
  IN  [r EXCEPT !.newPlaylistId = id,
                !.trackUris = m.trackUris,
                !.notFound = m.notFound,
                !.pc = "add",
                !.log = @ \o <<"createPlaylist.return", "findMatchingTrack",
                               "addTracksToPlaylist">>]

\* a handler that reads the tracks of the catalog again when it matches
PMatchAndAddRefetched(r, id) ==
  LET again == [r EXCEPT !.sourceTracks = catalog.tracks]
      m == MatchSongs(again.playlistSongs, 1, again.sourceTracks)
      u == [again EXCEPT !.newPlaylistId = id,
                         !.trackUris = m.trackUris,
                         !.notFound = m.notFound,
                         !.log = @ \o <<"createPlaylist.return", "findMatchingTrack">>]
  IN  IF Len(u.trackUris) > 0
        THEN [u EXCEPT !.pc = "add", !.log = Append(@, "addTracksToPlaylist")]
        ELSE PSucceed(u)

\* the loop over playlistSongs and what follows it, once createPlaylist returned
PMatchAndAdd(r, id) ==
  LET m == MatchSongs(r.playlistSongs, 1, r.sourceTracks)
      u == [r EXCEPT !.newPlaylistId = id,
                     !.trackUris = m.trackUris,
                     !.notFound = m.notFound,
                     !.log = @ \o <<"createPlaylist.return", "findMatchingTrack">>]
  IN  IF Len(u.trackUris) > 0
        THEN [u EXCEPT !.pc = "add", !.log = Append(@, "addTracksToPlaylist")]
        ELSE PSucceed(u)

\* a handler that goes on when createPlaylist threw
PAfterCreateUnchecked(r, ok) ==
  PMatchAndAdd(r, IF ok THEN "new" ELSE NULL)

\* from createPlaylist returning (ok) or throwing to the next await
PAfterCreate(r, ok) ==
  IF ok THEN PMatchAndAdd(r, "new")
  ELSE PCatch([r EXCEPT !.failure = "createPlaylist"], MsgCreate)

\* await spotifyService.createPlaylist(...) returns or throws; then every song
\* is matched and addTracksToPlaylist called when a track was found
PCreateReturn ==
  /\ p.pc = "create"
  /\ \E o \in getUserAccessToken(userToken), net \in BOOLEAN :
       /\ userToken' = o.tok
       /\ p' = PAfterCreate([p EXCEPT !.noToken = (o.msg = MsgNotAuth)], o.ok /\ net)
  /\ UNCHANGED <<libraryPlaylistId, env, catalog, g, fn>>

\* await spotifyService.addTracksToPlaylist(...) returns or throws
PAddReturn ==
  /\ p.pc = "add"
  /\ \E o \in getUserAccessToken(userToken), net \in BOOLEAN :
       /\ userToken' = o.tok
       /\ IF ~o.ok \/ ~net
            THEN p' = PCatch([p EXCEPT !.failure = "addTracksToPlaylist",
                                       !.noToken = (o.msg = MsgNotAuth)], MsgAddTracks)
            ELSE p' = PSucceed([p EXCEPT !.added = p.trackUris,
                                         !.log = Append(@, "addTracksToPlaylist.return")])
  /\ UNCHANGED <<libraryPlaylistId, env, catalog, g, fn>>

\* the client has its response
PReset ==
  /\ p.pc = "done" /\ p.origin = "client"
  /\ p' = PIdle
  /\ UNCHANGED <<userToken, libraryPlaylistId, env, catalog, g, fn>>


(***************************************************************************)
(* POST /generate                                                          *)
(***************************************************************************)
GBodies ==
  [venue : Venues, date : Dates, style : Styles,
   useSpotifyLibrary : BOOLEAN, playlistId : {NULL, "p1"}]

\* !venue || !date || !style
missingFieldsGenerate(b) == Falsy(b.venue) \/ Falsy(b.date) \/ Falsy(b.style)

GIdle ==
  [pc |-> "idle",
   body |-> [venue |-> NULL, date |-> NULL, style |-> NULL,
             useSpotifyLibrary |-> FALSE, playlistId |-> NULL],
   provider |-> NULL, calls |-> 0, reply |-> NoReply, playlist |-> <<>>,
   status |-> 0, error |-> "", relayed |-> "none",
   innerStatus |-> 0, innerCalls |-> 0, innerCreated |-> FALSE, log |-> <<>>]

GFail(r, code, msg) == [r EXCEPT !.pc = "done", !.status = code, !.error = msg]

\* regular prompt generation: buildPrompt, getProvider, generate called
GRegular(r) ==
  LET provider == getProvider(env)
  IN  IF provider.ok
        THEN [r EXCEPT !.pc = "generate", !.provider = provider.name,
                       !.log = Append(@, "generate")]
        ELSE GFail(r, 500, provider.msg)

\* a client posts to /generate: the handler up to its first await
GReceive ==
  /\ g.pc = "idle" /\ p.pc = "idle"
  /\ \E b \in GBodies :
       LET r == [GIdle EXCEPT !.body = b]
           inner == [r EXCEPT !.pc = "inner", !.log = <<"axios.post">>]
       IN  IF missingFieldsGenerate(b)
             THEN g' = GFail(r, 400, MsgMissing) /\ UNCHANGED p
           ELSE IF ~Falsy(b.playlistId)
             THEN /\ g' = inner
                  /\ p' = PStart([venue |-> b.venue, date |-> b.date, style |-> b.style,
                                  playlistId |-> b.playlistId], "generate")
           ELSE IF b.useSpotifyLibrary
             THEN /\ g' = inner
                  /\ p' = PStart([venue |-> b.venue, date |-> b.date, style |-> b.style,
                                  playlistId |-> NULL], "generate")
           ELSE g' = GRegular(r) /\ UNCHANGED p
  /\ UNCHANGED <<userToken, libraryPlaylistId, env, catalog, fn>>

\* a handler that passes the failure of the inner request on
GAfterInnerFailurePassed(r, status, msg) == GFail(r, status, msg)

\* the catch block around the axios.post: the failure is logged and the
\* handler goes on to regular prompt generation
GAfterInnerFailure(r, status, msg) == GRegular(r)

\* innerCalls and innerCreated keep what the request that was posted did: the
\* calls of the generation backend it made, and whether it called createPlaylist.
\* the axios.post to /spotify/generate-from-playlist returns or throws: a 2xx
\* answer is relayed; a redirect is followed to the login page, whose answer is
\* then the answer of the call; any other status throws
GInnerReturn ==
  /\ g.pc = "inner" /\ p.pc = "done" /\ p.origin = "generate"
  /\ LET r == [g EXCEPT !.innerStatus = p.status, !.innerCalls = p.calls,
                        !.innerCreated = (\E k \in 1..Len(p.log) : p.log[k] = "createPlaylist")]
     IN  IF p.status = 200
           THEN g' = [r EXCEPT !.pc = "done", !.status = 200, !.relayed = "data"]
         ELSE IF p.status = 302
           THEN \/ g' = [r EXCEPT !.pc = "done", !.status = 200, !.relayed = "login page"]
                \/ g' = GAfterInnerFailure(r, 500, "login page not fetched")
         ELSE g' = GAfterInnerFailure(r, p.status, p.error)
  /\ p' = PIdle
  /\ UNCHANGED <<userToken, libraryPlaylistId, env, catalog, fn>>

\* await provider.generate(prompt) returns or throws
GGenerateReturn ==
  /\ g.pc = "generate"
  /\ \E reply \in BackendReplies(RegularTexts) :
       LET playlist == generate(g.provider, reply)
           r == [g EXCEPT !.calls = @ + playlist.calls, !.reply = reply]
       IN  IF playlist.ok
             THEN g' = [r EXCEPT !.pc = "done", !.status = 200, !.relayed = "playlist",
                                 !.playlist = playlist.text,
                                 !.log = Append(@, "generate.return")]
             ELSE g' = GFail(r, 500, playlist.msg)
  /\ UNCHANGED <<userToken, libraryPlaylistId, env, catalog, p, fn>>

GReset ==
  /\ g.pc = "done"
  /\ g' = GIdle
  /\ UNCHANGED <<userToken, libraryPlaylistId, env, catalog, p, fn>>

(***************************************************************************)
(* The user token: GET /callback stores one, time makes it expire.         *)
(***************************************************************************)
\* exchangeCodeForTokens succeeded: userTokens.set("default", tokens)
Login ==
  /\ userToken # "valid"
  /\ userToken' = "valid"
  /\ UNCHANGED <<libraryPlaylistId, env, catalog, p, g, fn>>

\* Date.now() reaches expiresAt
Expire ==
  /\ userToken = "valid"
  /\ userToken' = "expired"
  /\ UNCHANGED <<libraryPlaylistId, env, catalog, p, g, fn>>

\* the user deletes or renames the library playlist at Spotify
LibraryDeleted ==
  /\ catalog.hasLibrary
  /\ catalog' = [catalog EXCEPT !.hasLibrary = FALSE]
  /\ UNCHANGED <<userToken, libraryPlaylistId, env, p, g, fn>>

\* the user removes the tracks of the playlists at Spotify while a run holds
\* the tracks it fetched (a removal before the fetch is a catalog that was
\* empty from the start)
CatalogEdited ==
  /\ p.pc \in {"generate", "create", "add"}
  /\ Len(catalog.tracks) > 0
  /\ catalog' = [catalog EXCEPT !.tracks = <<>>]
  /\ UNCHANGED <<userToken, libraryPlaylistId, env, p, g, fn>>

\* GET /spotify/create-library-playlist: after the token check createPlaylist
\* makes a playlist of the library's name and its id is stored
CreateLibraryPlaylist ==
  /\ \E o \in getUserAccessToken(userToken), net \in BOOLEAN :
       /\ userToken' = o.tok
       /\ IF o.ok /\ net
            THEN /\ libraryPlaylistId' = "lib"
                 /\ catalog' = [catalog EXCEPT !.hasLibrary = TRUE]
            ELSE UNCHANGED <<libraryPlaylistId, catalog>>
  /\ UNCHANGED <<env, p, g, fn>>

\* GET /spotify/library-playlist: when no id is stored the playlist is looked
\* up by name and its id stored
LibraryPlaylistLookup ==
  /\ Falsy(libraryPlaylistId)
  /\ \E o \in getUserAccessToken(userToken), net \in BOOLEAN :
       /\ userToken' = o.tok
       /\ LET userPlaylists == UserPlaylistList(catalog)
              libraryPlaylist == FindByName(userPlaylists, 1, LibraryName)
          IN  IF o.ok /\ net /\ libraryPlaylist # 0
                THEN libraryPlaylistId' = userPlaylists[libraryPlaylist].id
                ELSE UNCHANGED libraryPlaylistId
  /\ UNCHANGED <<env, catalog, p, g, fn>>

(***************************************************************************)
(* The specification of the handlers.                                      *)
(***************************************************************************)
FnOff == [phase |-> "off"]

Init ==
  /\ userToken \in {"none", "valid"}
  /\ libraryPlaylistId = NULL
  /\ env \in Envs
  /\ catalog \in [tracks : Corpora, hasLibrary : BOOLEAN]
  /\ p = PIdle
  /\ g = GIdle
  /\ fn = FnOff

Next ==
  \/ PReceive
  \/ PAuthCheck
  \/ PLookupReturn
  \/ PFetchReturn
  \/ PGenerateReturn
  \/ PCreateReturn
  \/ PAddReturn
  \/ PReset
  \/ GReceive
  \/ GInnerReturn
  \/ GGenerateReturn
  \/ GReset
  \/ Login
  \/ Expire
  \/ LibraryDeleted
  \/ CatalogEdited
  \/ CreateLibraryPlaylist
  \/ LibraryPlaylistLookup

Spec == Init /\ [][Next]_vars


(***************************************************************************)
(* parseAIPlaylist applied on its own to every short text over a small     *)
(* alphabet and to the section headers of the prompt.                      *)
(***************************************************************************)
ParseChars == {"a", " ", "-", "1", ".", NL}

ParseInputs == SeqsUpTo(ParseChars, MaxLineLen) \cup PromptHeaders

IdleHandlers ==
  /\ userToken = "none"
  /\ libraryPlaylistId = NULL
  /\ env = [LLM_PROVIDER |-> NULL, GEMINI_API_KEY |-> TRUE, DEEPSEEK_API_KEY |-> FALSE]
  /\ catalog = [tracks |-> <<>>, hasLibrary |-> FALSE]
  /\ p = PIdle
  /\ g = GIdle

InitParse ==
  /\ IdleHandlers
  /\ \E t \in ParseInputs : fn = [phase |-> "text", playlistText |-> t, songs |-> <<>>]

ApplyParse ==
  /\ fn.phase = "text"
  /\ fn' = [fn EXCEPT !.phase = "parsed", !.songs = parseAIPlaylist(fn.playlistText)]
  /\ UNCHANGED <<userToken, libraryPlaylistId, env, catalog, p, g>>

SpecParse == InitParse /\ [][ApplyParse]_vars

(***************************************************************************)
(* findMatchingTrack applied on its own to every entry and every corpus    *)
(* over a small pool of words.                                             *)
(***************************************************************************)
\* most tracks of a corpus handed to findMatchingTrack on its own
MaxCorpus == 2

Words == { <<"a">>, <<"a", "b">>, <<"A", "b">>, <<"b">> }

ArtistLists == { << <<"a">> >>, << <<"A", "b">> >>, << <<"b">> >>, << <<"b">>, <<"a">> >> }

MatchTracks == [name : Words, artists : ArtistLists, uri : {"uri"}]

\* "artist - title" entries, and entries with no hyphen and with two
MatchEntries ==
  {a \o Hyphen \o t : a \in Words \cup {<<>>}, t \in Words \cup {<<>>}}
    \cup { <<"a", "b">>, <<"a", " ", "-", " ", "a", "-", "b">> }

InitMatch ==
  /\ IdleHandlers
  /\ \E e \in MatchEntries, c \in SeqsUpTo(MatchTracks, MaxCorpus) :
       fn = [phase |-> "entry", songString |-> e, libraryTracks |-> c, track |-> 0]

ApplyMatch ==
  /\ fn.phase = "entry"
  /\ fn' = [fn EXCEPT !.phase = "matched",
                      !.track = findMatchingTrack(fn.songString, fn.libraryTracks)]
  /\ UNCHANGED <<userToken, libraryPlaylistId, env, catalog, p, g>>

SpecMatch == InitMatch /\ [][ApplyMatch]_vars

(***************************************************************************)
(* The properties.  log is the sequence of the calls a run has made and of *)
(* their returns, in the order the handler made them.                      *)
(***************************************************************************)
InLog(log, e) == \E i \in 1..Len(log) : log[i] = e

\* some occurrence of a comes before some occurrence of b
Before(log, a, b) == \E i, j \in 1..Len(log) : i < j /\ log[i] = a /\ log[j] = b

C2_EmptyCorpusSkipsCreate ==
  (InLog(p.log, "generate") /\ p.sourceTracks = <<>>) =>
     /\ ~InLog(p.log, "createPlaylist")
     /\ ~InLog(p.log, "addTracksToPlaylist")

\* C2, as the code has it: when the fetched corpus is empty addTracksToPlaylist
\* is never called and no URI is collected, but createPlaylist is called as
\* soon as generation returned, and the successful answer reports a created
\* playlist with foundSongs = 0 and notFoundSongs = totalSongs.
C2_EmptyCorpusSkipsAdd ==
  (InLog(p.log, "generate") /\ p.sourceTracks = <<>>) =>
     /\ ~InLog(p.log, "addTracksToPlaylist")
     /\ p.trackUris = <<>>
     /\ InLog(p.log, "generate.return") => InLog(p.log, "createPlaylist")
     /\ p.status = 200 =>
          /\ InLog(p.log, "createPlaylist.return")
          /\ p.newPlaylistId # NULL
          /\ p.data.foundSongs = 0
          /\ p.data.notFoundSongs = p.data.totalSongs

\* a successful answer for an empty corpus, with songs the backend made up
C2_Witness ==
  /\ p.status = 200
  /\ InLog(p.log, "generate")
  /\ p.sourceTracks = <<>>
  /\ p.data.notFoundSongs > 0
  /\ p.newPlaylistId = "new"

\* C3: in every successful answer foundSongs + notFoundSongs = totalSongs,
\* totalSongs being the number of entries parseAIPlaylist returned, foundSongs
\* the number of URIs collected and notFoundSongs the length of notFound.
C3_CountInvariant ==
  p.status = 200 =>
    /\ p.data.foundSongs + p.data.notFoundSongs = p.data.totalSongs
    /\ p.data.totalSongs = Len(parseAIPlaylist(p.aiPlaylist))
    /\ p.data.foundSongs = Len(p.trackUris)
    /\ p.data.notFoundSongs = Len(p.notFound)

\* a successful answer with a song found and a song not found
C3_Witness ==
  /\ p.status = 200
  /\ p.data.foundSongs > 0
  /\ p.data.notFoundSongs > 0

\* a required field of a request body is missing or empty
ClaimMissing(b) ==
  \/ b.venue = NULL \/ b.venue = ""
  \/ b.date = NULL \/ b.date = ""
  \/ b.style = NULL \/ b.style = ""

\* C4: a request to either endpoint in which venue, date or style is missing
\* or empty is answered with 400 and the failure body, and no catalog call, no
\* generation call and no internal HTTP call is made for it.
C4_ValidationFirst ==
  /\ (p.pc # "idle" /\ ClaimMissing(p.body)) =>
        /\ p.pc = "done"
        /\ p.status = 400
        /\ p.error = MsgMissing
        /\ p.log = <<>>
  /\ (g.pc # "idle" /\ ClaimMissing(g.body)) =>
        /\ g.pc = "done"
        /\ g.status = 400
        /\ g.error = MsgMissing
        /\ g.log = <<>>
        /\ p.pc = "idle"

\* a request to /spotify/generate-from-playlist without style has its answer
C4_Witness ==
  /\ p.pc = "done"
  /\ p.body.style = NULL
  /\ p.body.venue = "La Tropical"
  /\ p.body.date = "2023-07-15"
  /\ p.status = 400

\* an entry with exactly one hyphen
WellFormed(songString) ==
  Cardinality({k \in 1..Len(songString) : songString[k] = "-"}) = 1

EntryArtist(songString) ==
  LET k == CHOOSE h \in 1..Len(songString) : songString[h] = "-"
  IN  ToLowerCase(Trim(SubSeq(songString, 1, k - 1)))

EntryTitle(songString) ==
  LET k == CHOOSE h \in 1..Len(songString) : songString[h] = "-"
  IN  ToLowerCase(Trim(SubSeq(songString, k + 1, Len(songString))))

\* the exact tier as the claim words it
ClaimExact(track, artist, title) ==
  /\ ToLowerCase(track.name) = title
  /\ \E k \in 1..Len(track.artists) :
        \/ ToLowerCase(track.artists[k]) = artist
        \/ Includes(artist, ToLowerCase(track.artists[k]))

\* the lenient tier as the claim words it
ClaimLenient(track, artist, title) ==
  /\ \/ Includes(title, ToLowerCase(track.name))
     \/ Includes(ToLowerCase(track.name), title)
  /\ \E k \in 1..Len(track.artists) :
        \/ Includes(artist, ToLowerCase(track.artists[k]))
        \/ Includes(ToLowerCase(track.artists[k]), artist)

Least(S) == CHOOSE x \in S : \A y \in S : x <= y

\* C5: for a well-formed entry findMatchingTrack returns the first track in
\* corpus order that satisfies the exact tier if there is one, otherwise the
\* first that satisfies the lenient tier, otherwise null.
C5_TwoTierMatch ==
  (fn.phase = "matched" /\ WellFormed(fn.songString)) =>
     LET artist == EntryArtist(fn.songString)
         title == EntryTitle(fn.songString)
         c == fn.libraryTracks
         exact == {i \in 1..Len(c) : ClaimExact(c[i], artist, title)}
         lenient == {i \in 1..Len(c) : ClaimLenient(c[i], artist, title)}
     IN  fn.track = IF exact # {} THEN Least(exact)
                    ELSE IF lenient # {} THEN Least(lenient)
                    ELSE 0

\* the second track is returned on the exact tier although the first, which is
\* no exact match, satisfies the lenient tier
C5_Witness ==
  /\ fn.phase = "matched"
  /\ WellFormed(fn.songString)
  /\ Len(fn.libraryTracks) = 2
  /\ fn.track = 2
  /\ ClaimLenient(fn.libraryTracks[1], EntryArtist(fn.songString), EntryTitle(fn.songString))
  /\ ~ClaimExact(fn.libraryTracks[1], EntryArtist(fn.songString), EntryTitle(fn.songString))
  /\ ClaimExact(fn.libraryTracks[2], EntryArtist(fn.songString), EntryTitle(fn.songString))

\* the text is made of lines of the prompt's song list only
IsEcho(text, sourceTracks) ==
  /\ text # <<>>
  /\ \A k \in 1..Len(Split(text, NL)) : Split(text, NL)[k] \in EchoLines(sourceTracks)

\* C6: when the backend answers with exactly lines the prompt rendered for
\* corpus tracks, with or without an ordinal, every line is an entry, every
\* entry is matched, notFound is empty and foundSongs = totalSongs.
C6_RoundTrip ==
  (p.status = 200 /\ IsEcho(p.aiPlaylist, p.sourceTracks)) =>
     /\ p.data.totalSongs = Len(Split(p.aiPlaylist, NL))
     /\ p.notFound = <<>>
     /\ p.data.foundSongs = p.data.totalSongs

\* C7: parseAIPlaylist emits no entry for a section header of the prompt's
\* required output format.
C7_HeadersDropped ==
  (fn.phase = "parsed" /\ fn.playlistText \in PromptHeaders) => fn.songs = <<>>

\* C8: a supplied playlistId determines the source and the library is not
\* looked up; without playlistId, when the user has no playlist of the
\* library's name the run ends with 404 and fetches no tracks, calls no
\* generation backend and creates no playlist.
C8_SourceSelection ==
  /\ (p.pc # "idle" /\ ~ClaimMissing(p.body) /\ p.body.playlistId # NULL) =>
        /\ ~InLog(p.log, "getUserPlaylists")
        /\ ~p.isUsingLibrary
        /\ p.sourcePlaylistId \in {NULL, "p1", "zz"}
  /\ p.nameResolvable = "no" =>
        /\ p.pc = "done"
        /\ p.status = 404
        /\ ~InLog(p.log, "getPlaylistTracks")
        /\ ~InLog(p.log, "generate")
        /\ ~InLog(p.log, "createPlaylist")

\* C9, as the specification states it: a run that meets a missing user token
\* ends with the redirect to /spotify/login, and every other failure of an
\* external call ends with status 500.
C9_AuthRedirectElse500 ==
  /\ (p.pc = "done" /\ p.noToken) => (p.status = 302 /\ p.location = LoginPath)
  /\ (p.pc = "done" /\ p.failure # "none") => p.status = 500

\* the message the failing step leaves in the answer
ClaimMessages(failure, provider) ==
  CASE failure = "getUserPlaylists" -> {MsgUserPlaylists}
    [] failure = "getPlaylistTracks" -> {MsgPlaylistTracks}
    [] failure = "getProvider" -> {MsgGeminiKey, MsgDeepseekKey, MsgUnsupported}
    [] failure = "generate" ->
         IF provider = "gemini" THEN {"Gemini API error: backend failure"}
         ELSE {"Deepseek API error: backend failure", MsgDeepseekFormat}
    [] failure = "createPlaylist" -> {MsgCreate}
    [] failure = "addTracksToPlaylist" -> {MsgAddTracks}
    [] OTHER -> {}

\* C9, as the code has it: a missing user token is met at the first check
\* only, before any other call, and ends the run with the redirect to
\* /spotify/login; a token refresh that fails at that first check ends with
\* the same redirect; a failure of any later external call ends with status
\* 500 and the message of the service that failed.
C9_AuthRedirect ==
  /\ p.noToken =>
       /\ p.pc = "done"
       /\ p.status = 302
       /\ p.location = LoginPath
       /\ p.log = <<"getUserAccessToken">>
  /\ (p.pc = "done" /\ p.failure = "refresh") =>
       /\ p.status = 302
       /\ p.location = LoginPath
       /\ p.log = <<"getUserAccessToken">>
  /\ (p.pc = "done" /\ p.failure \notin {"none", "refresh"}) =>
       /\ p.status = 500
       /\ p.error \in ClaimMessages(p.failure, p.provider)

\* a request met the missing token and was redirected
C9_Witness ==
  /\ p.pc = "done"
  /\ p.noToken
  /\ p.status = 302
  /\ p.body.playlistId = "p1"

\* C10, as the specification states it: POST /generate answers 404 when the
\* library playlist cannot be found, and a failure of the Spotify-backed path
\* is never answered with 200.
C10_FailuresKeepStatus ==
  /\ (g.pc = "done" /\ g.innerStatus = 404) => g.status = 404
  /\ (g.pc = "done" /\ g.innerStatus \notin {0, 200}) => g.status # 200

\* C10, as the code has it: POST /generate answers 400 exactly for missing
\* fields and otherwise 200 or 500, never 404; when the Spotify-backed path
\* fails the handler goes on to regular generation and answers 200 with the
\* generated playlist, or 500 with the error of the generation backend.
C10_FallbackToRegular ==
  g.pc = "done" =>
    /\ g.status \in {200, 400, 500}
    /\ g.status = 400 <=> ClaimMissing(g.body)
    /\ g.innerStatus \notin {0, 200, 302} =>
         \/ g.status = 200 /\ g.relayed = "playlist" /\ InLog(g.log, "generate.return")
         \/ /\ g.status = 500
            /\ g.error \in ClaimMessages("getProvider", g.provider)
                             \cup ClaimMessages("generate", g.provider)

\* the library playlist was not found, and POST /generate answered 200
C10_Witness ==
  /\ g.pc = "done"
  /\ g.innerStatus = 404
  /\ g.body.useSpotifyLibrary
  /\ g.status = 200
  /\ g.relayed = "playlist"

\* no parsed entry of the run has a matching track in the corpus of the run
NoEntryMatches ==
  \A k \in 1..Len(p.playlistSongs) :
     \A i \in 1..Len(p.sourceTracks) :
        ~(WellFormed(p.playlistSongs[k]) /\
          (ClaimExact(p.sourceTracks[i], EntryArtist(p.playlistSongs[k]),
                      EntryTitle(p.playlistSongs[k]))
           \/ ClaimLenient(p.sourceTracks[i], EntryArtist(p.playlistSongs[k]),
                           EntryTitle(p.playlistSongs[k]))))

\* C11, as the specification states it: a run whose generated text yields no
\* parsed song, or whose entries all stay unmatched, ends with status 200,
\* foundSongs 0 and notFound listing every parsed entry.
C11_NoMatchSucceeds ==
  (p.pc = "done" /\ InLog(p.log, "parseAIPlaylist") /\ NoEntryMatches) =>
     /\ p.status = 200
     /\ p.data.foundSongs = 0
     /\ p.notFound = p.playlistSongs

\* C11, as the code has it: parsing and matching raise nothing, but
\* createPlaylist is called before matching and may fail. A run whose entries
\* all stay unmatched (or that has none) never calls addTracksToPlaylist; it
\* ends with 500 "Failed to create playlist" when createPlaylist fails, and
\* otherwise, as soon as createPlaylist returned, with status 200, foundSongs 0
\* and notFound listing every parsed entry in order.
C11_NoMatchEndsAtCreate ==
  (InLog(p.log, "parseAIPlaylist") /\ NoEntryMatches) =>
     /\ ~InLog(p.log, "addTracksToPlaylist")
     /\ p.pc \in {"create", "done"}
     /\ InLog(p.log, "createPlaylist.return") =>
          /\ p.pc = "done"
          /\ p.status = 200
          /\ p.data.foundSongs = 0
          /\ p.data.totalSongs = Len(p.playlistSongs)
          /\ p.notFound = p.playlistSongs
     /\ (p.pc = "done" /\ ~InLog(p.log, "createPlaylist.return")) =>
          /\ p.status = 500
          /\ p.error = MsgCreate

\* a successful answer for a non-empty corpus, every entry of which is unmatched
C11_Witness ==
  /\ p.status = 200
  /\ Len(p.sourceTracks) > 0
  /\ Len(p.playlistSongs) = 2
  /\ NoEntryMatches
  /\ p.notFound = p.playlistSongs

\* C12: findMatchingTrack returns null whenever splitting the entry on "-" does
\* not give exactly two parts, that is whenever the entry holds no hyphen or more
\* than one, whatever the corpus.
C12_MalformedUnmatched ==
  (fn.phase = "matched" /\ ~WellFormed(fn.songString)) => fn.track = 0

\* an entry with two hyphens is unmatched although a track of the corpus has the
\* name and the artist that precede and follow its first hyphen
C12_Witness ==
  /\ fn.phase = "matched"
  /\ Cardinality({k \in 1..Len(fn.songString) : fn.songString[k] = "-"}) = 2
  /\ fn.track = 0
  /\ \E i \in 1..Len(fn.libraryTracks) :
        /\ fn.libraryTracks[i].name = <<"a">>
        /\ fn.libraryTracks[i].artists = << <<"a">> >>

HyphensOf(s) == {k \in 1..Len(s) : s[k] = "-"}

\* one line with more than one hyphen that begins with its artist: no leading
\* white space, no digit and no hyphen in front
MultiHyphenLine(s) ==
  /\ Cardinality(HyphensOf(s)) > 1
  /\ \A k \in 1..Len(s) : s[k] # NL
  /\ ~IsSpace(s[1]) /\ ~IsDigit(s[1]) /\ s[1] # "-"

\* the entry a line gives when it is cut at its hyphen k
CutAt(s, k) == Trim(SubSeq(s, 1, k - 1)) \o <<" ", "-", " ">> \o Trim(SubSeq(s, k + 1, Len(s)))

\* C13, as the specification states it: a line with more than one hyphen is
\* split at its last hyphen.
C13_SplitAtLastHyphen ==
  (fn.phase = "parsed" /\ MultiHyphenLine(fn.playlistText)) =>
     fn.songs = << CutAt(fn.playlistText,
                         CHOOSE k \in HyphensOf(fn.playlistText) :
                            \A m \in HyphensOf(fn.playlistText) : k >= m) >>

\* C13, as the code has it: a line with more than one hyphen is split at its
\* first hyphen; the artist is the trimmed text before it, the title the trimmed
\* text after it, the later hyphens included.
C13_SplitAtFirstHyphen ==
  (fn.phase = "parsed" /\ MultiHyphenLine(fn.playlistText)) =>
     fn.songs = << CutAt(fn.playlistText,
                         CHOOSE k \in HyphensOf(fn.playlistText) :
                            \A m \in HyphensOf(fn.playlistText) : k <= m) >>

\* a line with two hyphens was parsed to an entry whose title holds the second
C13_Witness ==
  /\ fn.phase = "parsed"
  /\ MultiHyphenLine(fn.playlistText)
  /\ Len(fn.playlistText) = 5
  /\ fn.songs = << <<"a", " ", "-", " ", "a", "-", "a">> >>

(***************************************************************************)
(* parseAIPlaylist applied to a text written from a sequence of entries,   *)
(* one "artist - title" line per entry.                                    *)
(***************************************************************************)
\* most entries of such a text
MaxEntries == 2

\* artists: every string of one or two characters without white space at its
\* ends, and some longer ones
RoundArtists ==
  {w \in SeqsUpTo({"a", " ", "1", ".", ")"}, 2) : w # <<>> /\ Trim(w) = w}
    \cup { <<"1", ".", "a">>, <<"a", " ", "1">>, <<"1", " ", "a">> }

RoundTitles == { <<"a">>, <<"1", ".">> }

RoundEntries == [artist : RoundArtists, title : RoundTitles]

\* the text of a sequence of entries
RenderEntries(entries) ==
  Join([k \in 1..Len(entries) |-> entries[k].artist \o Hyphen \o entries[k].title], <<NL>>)

InitRound ==
  /\ IdleHandlers
  /\ \E es \in SeqsUpTo(RoundEntries, MaxEntries) :
       fn = [phase |-> "entries", entries |-> es,
             playlistText |-> RenderEntries(es), songs |-> <<>>]

ApplyRound ==
  /\ fn.phase = "entries"
  /\ fn' = [fn EXCEPT !.phase = "reparsed", !.songs = parseAIPlaylist(fn.playlistText)]
  /\ UNCHANGED <<userToken, libraryPlaylistId, env, catalog, p, g>>

SpecRound == InitRound /\ [][ApplyRound]_vars

\* non-empty, without white space at its ends, without hyphen or line break
Normalized(w) ==
  /\ Len(w) > 0
  /\ w[1] # " " /\ w[Len(w)] # " "
  /\ \A k \in 1..Len(w) : w[k] \notin {"-", NL}

\* the entry as the string "artist - title"
EntryString(e) == e.artist \o <<" ", "-", " ">> \o e.title

\* the word begins like a line number: digits, then "." or ")"
BeginsWithOrdinal(w) ==
  \E d \in 1..(Len(w) - 1) :
     /\ \A k \in 1..d : w[k] \in {"0", "1", "2", "3", "4", "5", "6", "7", "8", "9"}
     /\ w[d + 1] \in {".", ")"}

\* C14, as the specification states it: for entries whose artists and titles
\* are non-empty, trimmed and hyphen-free, parsing the "artist - title" lines
\* returns exactly the entries, in order.
C14_RoundTrip ==
  (fn.phase = "reparsed" /\
   \A k \in 1..Len(fn.entries) :
      Normalized(fn.entries[k].artist) /\ Normalized(fn.entries[k].title)) =>
     fn.songs = [k \in 1..Len(fn.entries) |-> EntryString(fn.entries[k])]

\* C14, as the code has it: the same, for entries no artist of which begins
\* with digits followed by "." or ")".
C14_RoundTripNoOrdinal ==
  (fn.phase = "reparsed" /\
   \A k \in 1..Len(fn.entries) :
      /\ Normalized(fn.entries[k].artist) /\ Normalized(fn.entries[k].title)
      /\ ~BeginsWithOrdinal(fn.entries[k].artist)) =>
     fn.songs = [k \in 1..Len(fn.entries) |-> EntryString(fn.entries[k])]

\* two different entries came back in their order; one artist holds a digit and
\* a dot, one title begins with an ordinal
C14_Witness ==
  /\ fn.phase = "reparsed"
  /\ Len(fn.entries) = 2
  /\ fn.entries[1].artist = <<".", "1">>
  /\ fn.entries[1].title = <<"1", ".">>
  /\ fn.entries[2].artist = <<"a", " ", "1">>
  /\ fn.songs = <<EntryString(fn.entries[1]), EntryString(fn.entries[2])>>

(***************************************************************************)
(* parseAIPlaylist applied to one song line put together from its parts:   *)
(* white space, an ordinal, the artist, the hyphen with white space around *)
(* it, the title, white space.                                             *)
(***************************************************************************)
LineSpaces == { <<>>, <<" ">>, <<" ", " ">> }

\* no ordinal, "N." and "N)" with and without white space after it
LineOrdinals == { <<>>, <<"1", ".">>, <<"1", ".", " ">>, <<"1", "2", ")">>, <<"2", ")", " ">> }

LineArtists == { <<"a">>, <<"a", " ", "b">>, <<"1", " ", "a">>, <<"2", ".", "a">>, <<"b", ".">> }

LineTitles == { <<"a">>, <<"1", ".">>, <<"b", " ", "a">> }

LineParts ==
  [lead : LineSpaces, ordinal : LineOrdinals, artist : LineArtists,
   before : LineSpaces, after : LineSpaces, title : LineTitles, trail : LineSpaces]

RenderLine(l) ==
  l.lead \o l.ordinal \o l.artist \o l.before \o <<"-">> \o l.after \o l.title \o l.trail

InitLine ==
  /\ IdleHandlers
  /\ \E l \in LineParts :
       fn = [phase |-> "line", parts |-> l, playlistText |-> RenderLine(l), songs |-> <<>>]

ApplyLine ==
  /\ fn.phase = "line"
  /\ fn' = [fn EXCEPT !.phase = "line parsed", !.songs = parseAIPlaylist(fn.playlistText)]
  /\ UNCHANGED <<userToken, libraryPlaylistId, env, catalog, p, g>>

SpecLine == InitLine /\ [][ApplyLine]_vars

\* C15: a song line with an optional leading ordinal ("N." or "N)") and white
\* space around its parts gives the entry "artist - title": the ordinal is not
\* in the artist and neither segment has white space at its ends. A line
\* without ordinal whose artist begins like one is read as having that ordinal.
C15_OrdinalAndSpaceStripped ==
  (fn.phase = "line parsed" /\
   (fn.parts.ordinal # <<>> \/ ~BeginsWithOrdinal(fn.parts.artist))) =>
     /\ fn.songs = << EntryString(fn.parts) >>
     /\ Normalized(fn.parts.artist) /\ Normalized(fn.parts.title)

\* a line with white space in front, the ordinal "12)", an artist that begins
\* with a digit, and white space around the hyphen and at the end
C15_Witness ==
  /\ fn.phase = "line parsed"
  /\ fn.parts.lead = <<" ">>
  /\ fn.parts.ordinal = <<"1", "2", ")">>
  /\ fn.parts.artist = <<"1", " ", "a">>
  /\ fn.parts.before = <<" ", " ">>
  /\ fn.parts.trail = <<" ">>
  /\ fn.songs = << <<"1", " ", "a", " ", "-", " ", "a">> >>

\* the track an entry is matched to as the matcher is described: position in
\* the corpus, 0 for none
ClaimTrack(entry, corpus) ==
  IF ~WellFormed(entry) THEN 0
  ELSE LET exact == {i \in 1..Len(corpus) :
                        ClaimExact(corpus[i], EntryArtist(entry), EntryTitle(entry))}
           lenient == {i \in 1..Len(corpus) :
                          ClaimLenient(corpus[i], EntryArtist(entry), EntryTitle(entry))}
       IN  IF exact # {} THEN Least(exact)
           ELSE IF lenient # {} THEN Least(lenient)
           ELSE 0

\* the j-th smallest element of a set of numbers
Nth(S, j) == CHOOSE x \in S : Cardinality({y \in S : y < x}) = j - 1

\* C16: once the entries are matched, every parsed entry has given exactly one
\* element to exactly one of trackUris and notFound; trackUris holds the URIs of
\* the matched entries in the order of the entries and notFound the unmatched
\* entries in their order, repeated entries included.
C16_OrderPreserving ==
  InLog(p.log, "findMatchingTrack") =>
    LET n == Len(p.playlistSongs)
        matched == {k \in 1..n : ClaimTrack(p.playlistSongs[k], p.sourceTracks) # 0}
        unmatched == (1..n) \ matched
    IN  /\ Len(p.trackUris) + Len(p.notFound) = n
        /\ p.trackUris =
             [j \in 1..Cardinality(matched) |->
                p.sourceTracks[ClaimTrack(p.playlistSongs[Nth(matched, j)], p.sourceTracks)].uri]
        /\ p.notFound =
             [j \in 1..Cardinality(unmatched) |-> p.playlistSongs[Nth(unmatched, j)]]

\* two entries were matched in the order opposite to that of their tracks in
\* the corpus
C16_Witness ==
  /\ InLog(p.log, "findMatchingTrack")
  /\ p.sourceTracks = <<TrackPlain, TrackDuo>>
  /\ p.trackUris = <<"uri3", "uri1">>

\* C17: a run shares no state with earlier runs, so the catalog calls it makes
\* are decided by its request alone: like the first run of the process, every
\* run without playlistId resolves the library by name (getUserPlaylists) before
\* it fetches tracks, and it fetches the playlist that lookup gave.
C17_RunsIndependent ==
  (p.isUsingLibrary /\ InLog(p.log, "getPlaylistTracks")) =>
     /\ Before(p.log, "getUserPlaylists", "getPlaylistTracks")
     /\ p.nameResolvable = "yes"

\* how many times the call e is in a log
Calls(log, e) == Cardinality({i \in 1..Len(log) : log[i] = e})

\* C18: in a run that reached generation getPlaylistTracks was called exactly
\* once; the tracks the run holds are a track list the catalog served, the song
\* list of the prompt is the rendering of these very tracks, and every URI
\* collected by the matcher is the URI of one of them, whatever happened to
\* the catalog since the fetch.
C18_CorpusSnapshot ==
  InLog(p.log, "generate") =>
    /\ Calls(p.log, "getPlaylistTracks") = 1
    /\ p.sourceTracks \in Corpora
    /\ p.songList = songList(p.sourceTracks)
    /\ \A i \in 1..Len(p.trackUris) :
         \E k \in 1..Len(p.sourceTracks) : p.sourceTracks[k].uri = p.trackUris[i]

\* a run has matched songs against the tracks it fetched although the catalog
\* lost its tracks after the fetch
C18_Witness ==
  /\ p.status = 200
  /\ Len(p.trackUris) > 0
  /\ p.sourceTracks # <<>>
  /\ catalog.tracks = <<>>

\* the handler record r has made its generate call and is past it
PastGenerate(r) == InLog(r.log, "generate") /\ r.pc # "generate"

\* generate threw in the run of r, which answered 500 with the message msg
Threw(r, msg) ==
  /\ ~InLog(r.log, "generate.return")
  /\ r.pc = "done" /\ r.status = 500 /\ r.error = msg

\* C19, as the specification states it: a generate call makes exactly one call
\* of the backend; when that call fails generate throws an error whose message
\* wraps the cause, and when the backend answers generate returns the text of
\* the answer unchanged.
C19_OneCallTextUnchanged ==
  /\ PastGenerate(p) =>
       /\ p.calls = 1
       /\ p.reply.ok => (InLog(p.log, "generate.return") /\ p.aiPlaylist = p.reply.text)
       /\ ~p.reply.ok => Threw(p, GenerateError(p.provider))
  /\ PastGenerate(g) =>
       /\ g.calls = 1
       /\ g.reply.ok => (InLog(g.log, "generate.return") /\ g.playlist = g.reply.text)
       /\ ~g.reply.ok => Threw(g, GenerateError(g.provider))

\* the answer of the backend holds a text generate returns: any text for
\* Gemini, a text that is not empty for Deepseek
ClaimReturned(name, reply) ==
  reply.ok /\ (name = "gemini" \/ reply.text # <<>>)

\* C19, as the code has it: a generate call makes exactly one call of the
\* backend; when that call fails generate throws an error whose message wraps
\* the cause; when the backend answers, generate returns the text unchanged,
\* except that DeepseekProvider throws "Unexpected response format", wrapped
\* like a failure, when the text is empty.
C19_OneCallTextUnlessEmpty ==
  /\ PastGenerate(p) =>
       /\ p.calls = 1
       /\ ClaimReturned(p.provider, p.reply) =>
            (InLog(p.log, "generate.return") /\ p.aiPlaylist = p.reply.text)
       /\ ~p.reply.ok => Threw(p, GenerateError(p.provider))
       /\ (p.reply.ok /\ ~ClaimReturned(p.provider, p.reply)) =>
            (Threw(p, MsgDeepseekFormat) /\ ~InLog(p.log, "createPlaylist"))
  /\ PastGenerate(g) =>
       /\ g.calls = 1
       /\ ClaimReturned(g.provider, g.reply) =>
            (InLog(g.log, "generate.return") /\ g.playlist = g.reply.text)
       /\ ~g.reply.ok => Threw(g, GenerateError(g.provider))
       /\ (g.reply.ok /\ ~ClaimReturned(g.provider, g.reply)) => Threw(g, MsgDeepseekFormat)

\* the Deepseek backend answered with an empty text and the run ended in 500
C19_Witness ==
  /\ PastGenerate(p)
  /\ p.provider = "deepseek"
  /\ p.reply = [ok |-> TRUE, text |-> <<>>]
  /\ p.status = 500

\* the configuration names a backend of the closed set, whatever the case of
\* the name, gemini when it names none, and holds the key of that backend
ClaimConfigured(e) ==
  \/ e.LLM_PROVIDER \in {NULL, "", "gemini", "Gemini", "GEMINI"} /\ e.GEMINI_API_KEY
  \/ e.LLM_PROVIDER \in {"deepseek", "Deepseek", "DEEPSEEK"} /\ e.DEEPSEEK_API_KEY

\* the messages of the errors of selection and construction
ClaimSelectionErrors == {MsgUnsupported, MsgGeminiKey, MsgDeepseekKey}

\* C20: under a configuration whose backend name is outside {gemini, deepseek}
\* or whose selected backend has no key, no run calls generate or the backend
\* and no run creates a playlist, and a run that reaches the selection answers
\* 500 with the error of the selection; under any other configuration, the key
\* of the other backend unset included, no run fails at the selection.
C20_SelectionFailsEarly ==
  /\ ~ClaimConfigured(env) =>
       /\ ~InLog(p.log, "generate") /\ ~InLog(g.log, "generate")
       /\ p.calls = 0 /\ g.calls = 0
       /\ ~InLog(p.log, "createPlaylist")
       /\ p.failure = "getProvider" =>
            (p.pc = "done" /\ p.status = 500 /\ p.error \in ClaimSelectionErrors)
  /\ ClaimConfigured(env) =>
       /\ p.failure # "getProvider"
       /\ p.error \notin ClaimSelectionErrors
       /\ g.error \notin ClaimSelectionErrors

\* a run that fetched its tracks failed at the selection: the key of the
\* selected backend is unset and the key of the other backend is set
C20_Witness ==
  /\ p.failure = "getProvider"
  /\ p.error = MsgGeminiKey
  /\ env.DEEPSEEK_API_KEY
  /\ InLog(p.log, "getPlaylistTracks")
  /\ p.status = 500

(***************************************************************************)
(* SpotifyService.addTracksToPlaylist, called by the end of the handler of *)
(* POST /spotify/generate-from-playlist or directly.  playlist is what the *)
(* new playlist holds at Spotify, requests the bodies of the requests sent.*)
(***************************************************************************)
\* most URIs of a call
MaxUris == 201

\* Spotify API has a limit of 100 tracks per request
ChunkSize == 100

\* a slice that takes the element at to as well
SliceThrough(s, from, to) ==
  SubSeq(s, from + 1, IF to + 1 < Len(s) THEN to + 1 ELSE Len(s))

\* Array.prototype.slice(from, to), from and to counted from 0
Slice(s, from, to) ==
  SubSeq(s, from + 1, IF to < Len(s) THEN to ELSE Len(s))

\* the URIs of a call: n distinct ones, or n that repeat three
AddUris(n, repeated) == [k \in 1..n |-> IF repeated THEN k % 3 ELSE k]

AddIdle(trackUris, guarded) ==
  [phase |-> "matched", trackUris |-> trackUris, guarded |-> guarded,
   i |-> 0, requests |-> <<>>, playlist |-> <<>>,
   returned |-> FALSE, status |-> 0, error |-> ""]

InitAdd ==
  /\ IdleHandlers
  /\ \E n \in 0..MaxUris, repeated, guarded \in BOOLEAN :
       fn = AddIdle(AddUris(n, repeated), guarded)

\* the caller after the call: the handler answers 200 when it returned and
\* 500 with the message of the error when it threw
AddAnswer(r, ok) ==
  IF ok THEN [r EXCEPT !.phase = "answered", !.returned = TRUE, !.status = 200]
  ELSE [r EXCEPT !.phase = "answered", !.status = 500, !.error = MsgAddTracks]

\* a function that empties the playlist when a request failed
AddAfterPostRollback(r, ok, applied) ==
  LET chunk == Slice(r.trackUris, r.i, r.i + ChunkSize)
      sent == [r EXCEPT !.requests = Append(@, chunk)]
  IN  IF ~ok THEN AddAnswer([sent EXCEPT !.playlist = <<>>], FALSE)
      ELSE LET next == [sent EXCEPT !.playlist = @ \o chunk, !.i = @ + ChunkSize]
           IN  IF next.i < Len(next.trackUris)
                 THEN [next EXCEPT !.phase = "post"]
                 ELSE AddAnswer(next, TRUE)

\* the request for trackUris.slice(i, i + 100) returns (ok) or throws; a
\* request that throws may or may not have been applied by Spotify. Then the
\* loop goes on to its next request, or the function returns true.
AddAfterPost(r, ok, applied) ==
  LET chunk == Slice(r.trackUris, r.i, r.i + ChunkSize)
      sent == [r EXCEPT !.requests = Append(@, chunk)]
  IN  IF ~ok
        THEN AddAnswer([sent EXCEPT !.playlist = IF applied THEN @ \o chunk ELSE @], FALSE)
      ELSE LET next == [sent EXCEPT !.playlist = @ \o chunk, !.i = @ + ChunkSize]
           IN  IF next.i < Len(next.trackUris)
                 THEN [next EXCEPT !.phase = "post"]
                 ELSE AddAnswer(next, TRUE)

\* if (trackUris.length > 0) await addTracksToPlaylist(...): the function up to
\* its first await, getUserAccessToken
AddCall ==
  /\ fn.phase = "matched"
  /\ fn' = IF fn.guarded /\ Len(fn.trackUris) = 0
             THEN [fn EXCEPT !.phase = "answered", !.status = 200]
             ELSE [fn EXCEPT !.phase = "token"]
  /\ UNCHANGED <<userToken, libraryPlaylistId, env, catalog, p, g>>

\* getUserAccessToken returns or throws; the loop begins
AddTokenReturn ==
  /\ fn.phase = "token"
  /\ \E ok \in BOOLEAN :
       fn' = IF ~ok THEN AddAnswer(fn, FALSE)
             ELSE IF fn.i < Len(fn.trackUris) THEN [fn EXCEPT !.phase = "post"]
             ELSE AddAnswer(fn, TRUE)
  /\ UNCHANGED <<userToken, libraryPlaylistId, env, catalog, p, g>>

AddPostReturn ==
  /\ fn.phase = "post"
  /\ \E ok, applied \in BOOLEAN : fn' = AddAfterPost(fn, ok, applied)
  /\ UNCHANGED <<userToken, libraryPlaylistId, env, catalog, p, g>>

SpecAdd == InitAdd /\ [][AddCall \/ AddTokenReturn \/ AddPostReturn]_vars

\* the tracks s begins with the tracks t
IsPrefix(t, s) == Len(t) <= Len(s) /\ t = SubSeq(s, 1, Len(t))

\* some tracks of the call are in the playlist, not all
PartlyPopulated == 0 < Len(fn.playlist) /\ Len(fn.playlist) < Len(fn.trackUris)

\* C21: the playlist always holds the first URIs of the call in their order
\* and never loses a batch that was added, also when a later request fails;
\* a call that fails ends the request with 500 "Failed to add tracks to
\* playlist", a request answered 200 has every URI in the playlist, and the
\* playlist holds some but not all URIs only after a request of the loop failed.
C21_NoRollback ==
  /\ IsPrefix(fn.playlist, fn.trackUris)
  /\ Len(fn.playlist) >= (IF fn.i < Len(fn.trackUris) THEN fn.i ELSE Len(fn.trackUris))
  /\ fn.phase = "answered" =>
       /\ fn.status \in {200, 500}
       /\ fn.status = 200 => fn.playlist = fn.trackUris
       /\ fn.status = 500 => (~fn.returned /\ fn.error = MsgAddTracks)
       /\ PartlyPopulated =>
            /\ fn.status = 500
            /\ Len(fn.requests) * ChunkSize = fn.i + ChunkSize

\* the second request of the handler's call failed: the request was answered
\* 500 and the playlist holds the first batch
C21_Witness ==
  /\ fn.phase = "answered"
  /\ fn.guarded
  /\ fn.status = 500
  /\ Len(fn.requests) = 2
  /\ Len(fn.playlist) = ChunkSize
  /\ Len(fn.trackUris) > ChunkSize

RECURSIVE Flatten(_)
Flatten(chunks) ==
  IF Len(chunks) = 0 THEN <<>> ELSE Head(chunks) \o Flatten(Tail(chunks))

\* C25: the requests sent so far hold, one after the other, the first URIs of
\* the call in input order, each between 1 and 100 of them and each but the
\* last exactly 100; a call that returned has sent ceil(n / 100) requests that
\* together are the input list, none for the empty list.
C25_ConsecutiveBatches ==
  /\ IsPrefix(Flatten(fn.requests), fn.trackUris)
  /\ \A k \in 1..Len(fn.requests) :
       /\ Len(fn.requests[k]) \in 1..ChunkSize
       /\ k < Len(fn.requests) => Len(fn.requests[k]) = ChunkSize
  /\ Len(fn.requests) * ChunkSize <= fn.i + ChunkSize
  /\ fn.returned =>
       /\ Len(fn.requests) = (Len(fn.trackUris) + ChunkSize - 1) \div ChunkSize
       /\ Flatten(fn.requests) = fn.trackUris
       /\ Len(fn.trackUris) = 0 => fn.requests = <<>>

\* a call with repeated URIs returned after three requests, the last of them
\* with one URI
C25_Witness ==
  /\ fn.returned
  /\ Len(fn.requests) = 3
  /\ Len(fn.requests[3]) = 1
  /\ fn.trackUris[1] = fn.trackUris[4]

\* C22: one POST /generate request, the request it posts to
\* /spotify/generate-from-playlist included, makes at most one call of the
\* generation backend and at most one createPlaylist call.
C22_OneGenerationOneCreation ==
  /\ g.innerCalls + g.calls + (IF g.pc = "inner" THEN p.calls ELSE 0) <= 1
  /\ g.pc = "inner" => Calls(p.log, "createPlaylist") <= 1

(***************************************************************************)
(* The token store of SpotifyService: userTokens.get("default") is store,  *)
(* now is Date.now() in milliseconds.  One call of getUserAccessToken is   *)
(* followed at a time, made directly or by getUserPlaylistTracks for       *)
(* GET /spotify/user-playlist/:id/tracks; exchangeCodeForTokens runs       *)
(* between its steps.  Tokens are numbered in the order Spotify issues     *)
(* them; 0 is a token the response does not carry.  A call keeps the entry *)
(* it read (userToken), the time it was made (atCall) and whether          *)
(* exchangeCodeForTokens stored tokens while it awaited its refresh.       *)
(***************************************************************************)
\* most tokens issued, most seconds passed
MaxIssued == 3

MaxSeconds == 3

\* (response.data.expires_in - 60) * 1000
SafetySeconds == 60

Millis == 1000

ExpiresIn == {SafetySeconds - 1, SafetySeconds + 1, SafetySeconds + 2}

\* userTokens.get(userId) when the map has no entry
NoTokens == [has |-> FALSE, accessToken |-> 0, refreshToken |-> 0, expiresAt |-> 0]

\* the answers of the token endpoint to a refresh
RefreshResponses(n) ==
  [access_token : {n}, refresh_token : {0, n}, expires_in : ExpiresIn]

\* the answers of the token endpoint to an authorization code
CodeResponses(n) ==
  [access_token : {n}, refresh_token : {n}, expires_in : ExpiresIn]

\* tokens of exchangeCodeForTokens
ExchangedTokens(data, t) ==
  [has |-> TRUE, accessToken |-> data.access_token,
   refreshToken |-> data.refresh_token,
   expiresAt |-> t + (data.expires_in - SafetySeconds) * Millis]

\* tokens that take the refresh token of the response as it is
UpdatedTokensOverwritten(data, previous, t) ==
  [has |-> TRUE, accessToken |-> data.access_token,
   refreshToken |-> data.refresh_token,
   expiresAt |-> t + (data.expires_in - SafetySeconds) * Millis]

\* updatedTokens of refreshAccessToken, previous being the userToken it read:
\* response.data.refresh_token || userToken.refreshToken
UpdatedTokens(data, previous, t) ==
  [has |-> TRUE, accessToken |-> data.access_token,
   refreshToken |-> IF data.refresh_token # 0 THEN data.refresh_token
                    ELSE previous.refreshToken,
   expiresAt |-> t + (data.expires_in - SafetySeconds) * Millis]

TokenCallers == {"getUserAccessToken", "user-playlist tracks"}

CallIdle ==
  [pc |-> "idle", caller |-> "none", userToken |-> NoTokens, atCall |-> 0,
   data |-> [access_token |-> 0, refresh_token |-> 0, expires_in |-> 0],
   refreshed |-> "no", exchanged |-> FALSE,
   returned |-> 0, thrown |-> "", status |-> 0, location |-> "", error |-> ""]

\* the catch of GET /user-playlist/:id/tracks
TracksRouteCatch(r, msg) ==
  IF msg = MsgNotAuth
    THEN [r EXCEPT !.pc = "done", !.thrown = msg, !.status = 302, !.location = LoginPath]
    ELSE [r EXCEPT !.pc = "done", !.thrown = msg, !.status = 500, !.error = msg]

\* getUserAccessToken throws msg: a direct caller has the error; in
\* getUserPlaylistTracks the call is inside the try, whose catch throws
\* "Failed to fetch playlist tracks from Spotify API" to the route
TokenThrows(r, msg) ==
  IF r.caller = "getUserAccessToken" THEN [r EXCEPT !.pc = "done", !.thrown = msg]
  ELSE TracksRouteCatch(r, MsgPlaylistTracks)

\* getUserAccessToken returns token: a direct caller has it;
\* getUserPlaylistTracks goes on to request the pages of the playlist
TokenReturns(r, token) ==
  IF r.caller = "getUserAccessToken" THEN [r EXCEPT !.pc = "done", !.returned = token]
  ELSE [r EXCEPT !.pc = "pages", !.returned = token]

InitToken ==
  /\ IdleHandlers
  /\ fn = [store |-> NoTokens, now |-> 0, issued |-> 0, call |-> CallIdle]

\* time passes
TokenTick ==
  /\ fn.now < MaxSeconds * Millis
  /\ fn' = [fn EXCEPT !.now = @ + Millis]
  /\ UNCHANGED <<userToken, libraryPlaylistId, env, catalog, p, g>>

\* exchangeCodeForTokens: the token endpoint answers and the tokens are
\* stored, or the request fails and the function throws
TokenExchange ==
  /\ fn.issued < MaxIssued
  /\ \/ \E data \in CodeResponses(fn.issued + 1) :
          fn' = [fn EXCEPT !.store = ExchangedTokens(data, fn.now),
                           !.issued = @ + 1,
                           !.call.exchanged = (@ \/ fn.call.pc = "refresh")]
     \/ fn' = [fn EXCEPT !.issued = @ + 1]
  /\ UNCHANGED <<userToken, libraryPlaylistId, env, catalog, p, g>>

\* getUserAccessToken is called: it throws, returns the stored access token,
\* or calls refreshAccessToken, which reads the entry and awaits the token
\* endpoint
TokenCall ==
  /\ fn.call.pc = "idle"
  /\ \E caller \in TokenCallers :
       LET r == [CallIdle EXCEPT !.caller = caller, !.userToken = fn.store,
                                 !.atCall = fn.now]
       IN  fn' = [fn EXCEPT !.call =
                    IF ~fn.store.has THEN TokenThrows(r, MsgNotAuth)
                    ELSE IF fn.now >= fn.store.expiresAt
                      THEN [r EXCEPT !.pc = "refresh", !.refreshed = "pending"]
                    ELSE TokenReturns(r, fn.store.accessToken)]
  /\ UNCHANGED <<userToken, libraryPlaylistId, env, catalog, p, g>>

\* the token endpoint answers the refresh: the updated tokens are stored and
\* the new access token returned; or the request fails and "Failed to refresh
\* access token" is thrown
TokenRefreshReturn ==
  /\ fn.call.pc = "refresh"
  /\ \/ /\ fn.issued < MaxIssued
        /\ \E data \in RefreshResponses(fn.issued + 1) :
             LET updatedTokens == UpdatedTokens(data, fn.call.userToken, fn.now)
                 r == [fn.call EXCEPT !.refreshed = "yes", !.data = data]
             IN  fn' = [fn EXCEPT !.store = updatedTokens,
                                  !.issued = @ + 1,
                                  !.call = TokenReturns(r, updatedTokens.accessToken)]
     \/ fn' = [fn EXCEPT !.call = TokenThrows([fn.call EXCEPT !.refreshed = "failed"],
                                              MsgRefresh)]
  /\ UNCHANGED <<userToken, libraryPlaylistId, env, catalog, p, g>>

\* the pages of the playlist are fetched, or a request fails
TracksPagesReturn ==
  /\ fn.call.pc = "pages"
  /\ \/ fn' = [fn EXCEPT !.call = [fn.call EXCEPT !.pc = "done", !.status = 200]]
     \/ fn' = [fn EXCEPT !.call = TracksRouteCatch(fn.call, MsgPlaylistTracks)]
  /\ UNCHANGED <<userToken, libraryPlaylistId, env, catalog, p, g>>

\* the caller has its answer
TokenReset ==
  /\ fn.call.pc = "done"
  /\ fn' = [fn EXCEPT !.call = CallIdle]
  /\ UNCHANGED <<userToken, libraryPlaylistId, env, catalog, p, g>>

SpecToken ==
  InitToken /\ [][TokenTick \/ TokenExchange \/ TokenCall \/ TokenRefreshReturn
                    \/ TracksPagesReturn \/ TokenReset]_vars

\* C23: GET /spotify/user-playlist/:id/tracks ends with the redirect to
\* /spotify/login whenever no user token is stored.
C23_RedirectWhenNoToken ==
  (fn.call.caller = "user-playlist tracks" /\ fn.call.pc = "done" /\ ~fn.call.userToken.has) =>
     /\ fn.call.status = 302
     /\ fn.call.location = LoginPath

\* what C26 says of a state: a stored entry has a refresh token, and a call
\* that found an entry returned its access token without a refresh exactly
\* when the time of the call was before expiresAt
ClaimTokenState ==
  /\ fn.store.has => fn.store.refreshToken # 0
  /\ (fn.call.caller # "none" /\ fn.call.userToken.has) =>
       /\ fn.call.refreshed = "no" <=> fn.call.atCall < fn.call.userToken.expiresAt
       /\ fn.call.refreshed = "no" => fn.call.returned = fn.call.userToken.accessToken

\* what C26 says of a step: the entry is not removed; a refresh that fails
\* leaves it as it is; a refresh that succeeds stores the refresh token of the
\* response, or the one of the entry it read when the response has none, which
\* is the stored one unless exchangeCodeForTokens ran during the refresh
ClaimTokenStep ==
  /\ fn.store.has => fn'.store.has
  /\ (fn.call.pc = "refresh" /\ fn'.call.refreshed = "failed") =>
       (fn'.store = fn.store /\ fn'.call.thrown \in {MsgRefresh, MsgPlaylistTracks})
  /\ (fn.call.pc = "refresh" /\ fn'.call.refreshed = "yes") =>
       /\ fn'.store.accessToken = fn'.call.data.access_token
       /\ fn'.call.returned = fn'.call.data.access_token
       /\ fn'.store.refreshToken =
            IF fn'.call.data.refresh_token # 0 THEN fn'.call.data.refresh_token
            ELSE fn.call.userToken.refreshToken
       /\ ~fn.call.exchanged => fn.call.userToken = fn.store

\* C26: after any calls of exchangeCodeForTokens, getUserAccessToken and
\* refreshAccessToken a stored entry is never removed and never without refresh
\* token; a failed refresh leaves the entry unchanged, a successful refresh
\* without refresh token in its response keeps the previous one, and
\* getUserAccessToken returns the stored access token without refreshing
\* exactly when the time is before expiresAt.
C26_TokensKept == [] ClaimTokenState /\ [][ClaimTokenStep]_vars

\* a refresh whose response carried no refresh token was stored, and the entry
\* has the refresh token of the login
C26_Witness ==
  /\ fn.call.pc = "done"
  /\ fn.call.refreshed = "yes"
  /\ fn.call.data.refresh_token = 0
  /\ fn.call.data.access_token = 2
  /\ fn.store.refreshToken = 1

(***************************************************************************)
(* SpotifyService.getPlaylistTracks: the client token, the request that    *)
(* verifies the playlist exists, then one request per page of its tracks.  *)
(* An error is the sequence of the parts of its message.                   *)
(***************************************************************************)
\* most pages of a playlist
MaxPages == 2

\* the tracks of a page, by id
PageItems == { <<>>, <<1>>, <<1, 2>> }

\* the pages Spotify serves for a playlist: at least one
PageLists == SeqsUpTo(PageItems, MaxPages) \ {<<>>}

\* the status of the answer to the request for the details of the playlist;
\* 0: no answer
ExistsAnswers == {200, 404, 500, 0}

\* `Playlist with ID ${playlistId} not found`
MsgPlaylistNotFound(playlistId) == <<"Playlist with ID ", playlistId, " not found">>

\* an error of the request itself
RequestFailed(status) == <<"Request failed with status code ", status>>

\* the catch around the request for the details: the error it throws
ExistsCatch(status, playlistId) ==
  IF status = 404 THEN MsgPlaylistNotFound(playlistId) ELSE RequestFailed(status)

\* the catch of the function: whatever was thrown inside, it throws
\* "Failed to fetch playlist tracks from Spotify API"
FetchCatch(r, error) ==
  [r EXCEPT !.phase = "threw", !.thrown = <<MsgPlaylistTracks>>]

InitFetch ==
  /\ IdleHandlers
  /\ \E id \in {"p1", "p2"}, pages \in PageLists :
       fn = [phase |-> "token", playlistId |-> id, pages |-> pages, nextUrl |-> 0,
             exists |-> 0, cause |-> <<>>, tracks |-> <<>>, thrown |-> <<>>]

\* getAccessToken returns or throws; the details of the playlist are requested
FetchTokenReturn ==
  /\ fn.phase = "token"
  /\ \E ok \in BOOLEAN :
       fn' = IF ok THEN [fn EXCEPT !.phase = "exists"]
             ELSE FetchCatch([fn EXCEPT !.cause = <<"Failed to authenticate with Spotify API">>],
                             <<"Failed to authenticate with Spotify API">>)
  /\ UNCHANGED <<userToken, libraryPlaylistId, env, catalog, p, g>>

\* the request for the details returns or throws; the first page is requested
FetchExistsReturn ==
  /\ fn.phase = "exists"
  /\ \E status \in ExistsAnswers :
       LET r == [fn EXCEPT !.exists = status]
       IN  fn' = IF status = 200 THEN [r EXCEPT !.phase = "page", !.nextUrl = 1]
                 ELSE FetchCatch([r EXCEPT !.cause = ExistsCatch(status, fn.playlistId)],
                                 ExistsCatch(status, fn.playlistId))
  /\ UNCHANGED <<userToken, libraryPlaylistId, env, catalog, p, g>>

\* the request for a page returns or throws: its items are pushed, and the
\* next page is requested or the tracks are returned
FetchPageReturn ==
  /\ fn.phase = "page"
  /\ \E ok \in BOOLEAN :
       fn' = IF ~ok THEN FetchCatch([fn EXCEPT !.cause = RequestFailed(500)], RequestFailed(500))
             ELSE LET r == [fn EXCEPT !.tracks = @ \o fn.pages[fn.nextUrl]]
                  IN  IF fn.nextUrl < Len(fn.pages)
                        THEN [r EXCEPT !.nextUrl = @ + 1]
                        ELSE [r EXCEPT !.phase = "returned", !.nextUrl = 0]
  /\ UNCHANGED <<userToken, libraryPlaylistId, env, catalog, p, g>>

SpecFetch == InitFetch /\ [][FetchTokenReturn \/ FetchExistsReturn \/ FetchPageReturn]_vars

\* C24: when the request that verifies the playlist exists is answered 404,
\* the error getPlaylistTracks throws to its caller has the message
\* "Playlist with ID <id> not found".
C24_NotFoundMessage ==
  (fn.phase = "threw" /\ fn.exists = 404) => fn.thrown = MsgPlaylistNotFound(fn.playlistId)

(***************************************************************************)
(* GET /spotify/create-library-playlist step by step, with one run of      *)
(* POST /spotify/generate-from-playlist without playlistId beside it.      *)
(* created: the playlist exists at Spotify; playlist: the tracks it holds. *)
(***************************************************************************)
\* most songs of the library
MaxSongs == 2

LibrarySongs == {"s1", "s2"}

\* songList: the lines of songLibrary, trimmed, the empty ones left out
LibrarySongLists == SeqsUpTo(LibrarySongs, MaxSongs)

\* what the search request of searchTrack does: it answers with a track, it
\* answers with no track, or it (or the token before it) fails
SearchAnswers == {"track", "no track", "error"}

UriOf(song) == <<"spotify:track:", song>>

\* a searchTrack that throws when its request failed
searchTrackThrowing(song, answer) ==
  CASE answer = "track" -> [threw |-> FALSE, uri |-> UriOf(song)]
    [] answer = "no track" -> [threw |-> FALSE, uri |-> <<>>]
    [] OTHER -> [threw |-> TRUE, uri |-> <<>>]

\* searchTrack(query): the URI of the first track, or null (the empty
\* sequence) when there is none and when anything failed
searchTrack(song, answer) ==
  CASE answer = "track" -> [threw |-> FALSE, uri |-> UriOf(song)]
    [] answer = "no track" -> [threw |-> FALSE, uri |-> <<>>]
    [] OTHER -> [threw |-> FALSE, uri |-> <<>>]

NoRun == [pc |-> "none", sourcePlaylistId |-> NULL, sourceTracks |-> <<>>,
          populated |-> FALSE, status |-> 0]

LibIdle(songs) ==
  [pc |-> "idle", songList |-> songs, searched |-> <<>>, answers |-> <<>>,
   trackUris |-> <<>>, notFound |-> <<>>, playlistId |-> NULL,
   created |-> FALSE, playlist |-> <<>>,
   status |-> 0, error |-> "", location |-> "", data |-> NoData, run |-> NoRun]

InitLibrary ==
  /\ userToken \in {"none", "valid", "expired"}
  /\ libraryPlaylistId = NULL
  /\ env = [LLM_PROVIDER |-> NULL, GEMINI_API_KEY |-> TRUE, DEEPSEEK_API_KEY |-> FALSE]
  /\ catalog = [tracks |-> <<>>, hasLibrary |-> FALSE]
  /\ p = PIdle
  /\ g = GIdle
  /\ \E songs \in LibrarySongLists : fn = LibIdle(songs)

\* res.status(200).json({ success: true, data })
LibSucceed(r) ==
  [r EXCEPT !.pc = "done", !.status = 200,
            !.data = [totalSongs |-> Len(r.songList),
                      foundSongs |-> Len(r.trackUris),
                      notFoundSongs |-> Len(r.notFound)]]

\* the catch of the route
LibCatch(r, msg) ==
  IF msg = MsgNotAuth
    THEN [r EXCEPT !.pc = "done", !.status = 302, !.location = LoginPath]
    ELSE [r EXCEPT !.pc = "done", !.status = 500, !.error = msg]

\* the loop over songList before its next search, and what follows the loop
LibNextSong(r) ==
  IF Len(r.searched) < Len(r.songList) THEN [r EXCEPT !.pc = "search"]
  ELSE IF Len(r.trackUris) > 0 THEN [r EXCEPT !.pc = "add"]
  ELSE LibSucceed(r)

\* the request arrives: getUserAccessToken is awaited
LibReceive ==
  /\ fn.pc = "idle"
  /\ fn' = [fn EXCEPT !.pc = "auth"]
  /\ UNCHANGED <<userToken, libraryPlaylistId, env, catalog, p, g>>

\* the token check returns or throws; createPlaylist is called
LibAuthReturn ==
  /\ fn.pc = "auth"
  /\ \E o \in getUserAccessToken(userToken) :
       /\ userToken' = o.tok
       /\ fn' = IF o.ok THEN [fn EXCEPT !.pc = "create"]
                ELSE [fn EXCEPT !.pc = "done", !.status = 302, !.location = LoginPath]
  /\ UNCHANGED <<libraryPlaylistId, env, catalog, p, g>>

\* createPlaylist returns or throws: setLibraryPlaylistId(playlistId), then
\* the loop begins
LibCreateReturn ==
  /\ fn.pc = "create"
  /\ \/ /\ fn' = LibNextSong([fn EXCEPT !.playlistId = "lib", !.created = TRUE])
        /\ libraryPlaylistId' = "lib"
     \/ /\ fn' = LibCatch(fn, MsgCreate)
        /\ UNCHANGED libraryPlaylistId
  /\ UNCHANGED <<userToken, env, catalog, p, g>>

\* searchTrack(song) returns, and the delay after it has passed
LibSearchReturn ==
  /\ fn.pc = "search"
  /\ \E answer \in SearchAnswers :
       LET song == fn.songList[Len(fn.searched) + 1]
           uri == searchTrack(song, answer)
           r == [fn EXCEPT !.searched = Append(@, song), !.answers = Append(@, answer)]
       IN  fn' = IF uri.threw THEN LibCatch(r, "search failed")
                 ELSE IF uri.uri # <<>>
                   THEN LibNextSong([r EXCEPT !.trackUris = Append(@, uri.uri)])
                 ELSE LibNextSong([r EXCEPT !.notFound = Append(@, song)])
  /\ UNCHANGED <<userToken, libraryPlaylistId, env, catalog, p, g>>

\* addTracksToPlaylist returns or throws
LibAddReturn ==
  /\ fn.pc = "add"
  /\ \/ fn' = LibSucceed([fn EXCEPT !.playlist = fn.trackUris])
     \/ fn' = LibCatch(fn, MsgAddTracks)
  /\ UNCHANGED <<userToken, libraryPlaylistId, env, catalog, p, g>>

\* a run of POST /spotify/generate-from-playlist without playlistId chooses its
\* source: the stored id, or the playlist of the library's name, or 404
LibraryRunSource ==
  /\ fn.run.pc = "none"
  /\ IF ~Falsy(libraryPlaylistId)
       THEN /\ fn' = [fn EXCEPT !.run.pc = "fetch", !.run.sourcePlaylistId = libraryPlaylistId]
            /\ UNCHANGED libraryPlaylistId
     ELSE IF fn.created
       THEN /\ fn' = [fn EXCEPT !.run.pc = "fetch", !.run.sourcePlaylistId = "lib"]
            /\ libraryPlaylistId' = "lib"
     ELSE /\ fn' = [fn EXCEPT !.run.pc = "done", !.run.status = 404]
          /\ UNCHANGED libraryPlaylistId
  /\ UNCHANGED <<userToken, env, catalog, p, g>>

\* getPlaylistTracks(sourcePlaylistId) returns the tracks the playlist holds
LibraryRunFetch ==
  /\ fn.run.pc = "fetch"
  /\ fn' = [fn EXCEPT !.run.pc = "fetched", !.run.sourceTracks = fn.playlist,
                      !.run.populated = (fn.pc = "done" /\ fn.status = 200)]
  /\ UNCHANGED <<userToken, libraryPlaylistId, env, catalog, p, g>>

SpecLibrary ==
  InitLibrary /\ [][LibReceive \/ LibAuthReturn \/ LibCreateReturn \/ LibSearchReturn
                      \/ LibAddReturn \/ LibraryRunSource \/ LibraryRunFetch]_vars

\* the searched songs whose search gave a track (wanted) or gave none
RECURSIVE ClaimPick(_, _, _)
ClaimPick(songs, answers, wanted) ==
  IF songs = <<>> THEN <<>>
  ELSE (IF (answers[1] = "track") = wanted THEN <<songs[1]>> ELSE <<>>)
         \o ClaimPick(Tail(songs), Tail(answers), wanted)

\* C27: in GET /spotify/create-library-playlist a search that fails or finds
\* nothing never ends the run: the songs are searched once each in the order
\* of the library, a song without a track is recorded in notFound and a song
\* with one in trackUris, a run that stopped before the last song stopped
\* before the playlist existed, and the 200 response counts
\* foundSongs + notFoundSongs = totalSongs.
C27_SearchNeverAborts ==
  /\ IsPrefix(fn.searched, fn.songList)
  /\ fn.notFound = ClaimPick(fn.searched, fn.answers, FALSE)
  /\ fn.trackUris = [k \in 1..Len(ClaimPick(fn.searched, fn.answers, TRUE)) |->
                       UriOf(ClaimPick(fn.searched, fn.answers, TRUE)[k])]
  /\ (fn.pc = "done" /\ Len(fn.searched) < Len(fn.songList)) => ~fn.created
  /\ fn.pc \in {"add", "done"} /\ fn.created => fn.searched = fn.songList
  /\ fn.status = 200 =>
       /\ fn.data.totalSongs = Len(fn.songList)
       /\ fn.data.foundSongs + fn.data.notFoundSongs = fn.data.totalSongs

C27_Witness ==
  /\ fn.status = 200
  /\ \E k \in 1..Len(fn.answers) : fn.answers[k] = "error"
  /\ \E k \in 1..Len(fn.answers) : fn.answers[k] = "track"
  /\ fn.data.notFoundSongs = 1

\* C28: a run of POST /spotify/generate-from-playlist without playlistId
\* never fetches the library playlist before GET
\* /spotify/create-library-playlist has finished filling it: the library id
\* is set only once the route has answered 200, and the run's fetch happens
\* after that.
C28_LibraryCompleteBeforeUse ==
  /\ libraryPlaylistId # NULL => (fn.pc = "done" /\ fn.status = 200)
  /\ fn.run.pc = "fetched" => fn.run.populated

\* C29: every URI that POST /spotify/generate-from-playlist hands to
\* addTracksToPlaylist, and so every URI added to the new playlist, is the uri
\* of a track of the corpus the run fetched; addTracksToPlaylist is called
\* with at least one URI, and the playlist gets exactly the URIs handed over.
C29_OnlyCorpusUris ==
  /\ InLog(p.log, "addTracksToPlaylist") =>
       /\ p.trackUris # <<>>
       /\ {p.trackUris[i] : i \in 1..Len(p.trackUris)}
            \subseteq {p.sourceTracks[k].uri : k \in 1..Len(p.sourceTracks)}
  /\ p.added # <<>> => p.added = p.trackUris

\* tracks were added for a generated text that also names a song the corpus
\* does not hold
C29_Witness ==
  /\ p.status = 200
  /\ p.added # <<>>
  /\ p.notFound # <<>>

\* C30: every entry parseAIPlaylist emits, "artist - title", has a non-empty
\* artist and a non-empty title (the entry neither begins nor ends with the
\* space of the separator), so an entry that findMatchingTrack splits in two
\* gives it an artist and a title that are not empty.
C30_EntriesNonEmpty ==
  fn.phase = "parsed" =>
    \A k \in 1..Len(fn.songs) :
      LET song == fn.songs[k]
      IN  /\ song[1] # " " /\ song[Len(song)] # " "
          /\ WellFormed(song) => EntryArtist(song) # <<>> /\ EntryTitle(song) # <<>>

====
